---- MODULE Spec2Model ----
(***************************************************************************)
(* Relay Hub (backend/server.js) and Narration Engine (mac-server/         *)
(* server.js) of macos-voice-control as state machines.                    *)
(*                                                                         *)
(* Both programs are single-threaded Node.js event loops: every action     *)
(* below is one callback run to its next real suspension point (an         *)
(* awaited synthesis request, an awaited playback exit, an awaited pong).  *)
(* SpecEngine exercises the Narration Engine, SpecHub the Relay Hub; the   *)
(* variables of the other component stay at their initial value.           *)
(***************************************************************************)
EXTENDS Integers, Sequences, FiniteSets, TLC

\* ------------------------------------------------------------------ bounds
\* number of narrate() calls explored
MaxItems == 2

\* voices an item can be enqueued with (two entries of VOICE_RANKING)
Voices == {"fable", "nova"}

\* longest transcript, in characters
MaxLen == 2

\* number of streamingRecognize calls explored
MaxSessions == 2

\* number of getServerStatuses calls pending at the same time
MaxProbes == 2

\* connections the hub accepts, each once
Conns == {"c1", "c2", "c3"}
NoConn == "none"

\* the connections in the order in which they are enumerated
ConnOrder == <<"c1", "c2", "c3">>

\* display names a receiver identifies with: the one the hub probes and
\* forwards control messages to, and two others
MacServerName == "Mac Server"
OtherNames == {"Terminal", "Viewer"}

\* characters of a transcript, and the transcripts
Alphabet == {"a", "b"}
Texts == UNION {[1..n -> Alphabet] : n \in 0..MaxLen}

\* sampleRate and languageCode of a start message; 0 and "" stand for a
\* missing (falsy) field
StartConfigs == {[rate |-> 0, lang |-> ""], [rate |-> 16000, lang |-> "de-DE"]}

\* ----------------------------------------------------------------- state
VARIABLES
  \* ---- Narration Engine: fields of MacServer ----
  audioQueue,           \* this.audioQueue: sequence of [id, voice]
  isPlayingAudio,       \* this.isPlayingAudio
  micActive,            \* this.micActive
  ttsEnabled,           \* this.ttsEnabled
  currentAudioProcess,  \* this.currentAudioProcess: 0 (null) or a pid
  loops,                \* suspended activations of processAudioQueue
  procs,                \* playback processes whose exit callback is pending
  wsState,              \* this.ws: "connecting" | "open" | "closed"
  reconnectTimer,       \* this.reconnectTimer is set
  timers,               \* pending callbacks set by scheduleReconnect
  engineSent,           \* messages the engine sent in the last step
  \* ---- Narration Engine: history ----
  nextId,               \* number of narrate() calls so far, plus one
  enqVoice,             \* accepted item id -> voice it was enqueued with
  playLog,              \* playback starts, in order
  interrupted,          \* ids accepted before some interrupt was handled
  discarded,            \* ids whose synthesized file was dropped unplayed
  dropped,              \* ids an interrupt removed from the queue
  lastEvent,            \* the event handled by the last step
  \* ---- Relay Hub: module state and the closure of each connection ----
  connState,            \* connection -> "new" | "open" | "closed"
  clientType,           \* connection -> "transcriber" | "receiver"
  receivers,            \* clients.receivers: Map name -> ws, insertion order
  transcribers,         \* clients.transcribers: Set of ws
  recognizeStream,      \* connection -> 0 (null) or the id of a stream
  previousTranscript,   \* connection -> text
  forwardingEnabled,    \* connection -> BOOLEAN
  streams,              \* upstream recognition streams not yet destroyed
  nextStream,           \* number of streamingRecognize calls so far, plus one
  probes,               \* pending getServerStatuses calls, in call order
  \* ---- Relay Hub: what the last step did ----
  sent,                 \* ws.send calls of the last step, in order
  written,              \* streams the last step wrote an audio frame to
  hubEvent,             \* the event handled by the last step
  sessionPrevious,      \* live stream id -> the text of its latest result
                        \* if that was not final, empty otherwise
  \* ---- Narration Engine: the transcript monitor and one transcript ----
  file,                 \* bytes of the .jsonl transcript, append-only
  filePosition,         \* this.filePositions[path]; 0: not set (falsy)
  \* ---- Narration Engine: history of the monitor ----
  trackedSize,          \* size of the file when tracking began, -1 before
  narrated,             \* segments passed to narrate(), in call order
  \* ---- Narration Engine: the audio files in /tmp ----
  tempFiles             \* ids of the items whose synthesized file exists

engineVars == <<audioQueue, isPlayingAudio, micActive, ttsEnabled,
                currentAudioProcess, loops, procs, wsState, reconnectTimer,
                timers, engineSent, nextId, enqVoice, playLog, interrupted,
                discarded, dropped, lastEvent>>

hubVars == <<connState, clientType, receivers, transcribers, recognizeStream,
             previousTranscript, forwardingEnabled, streams, nextStream,
             probes, sent, written, hubEvent, sessionPrevious>>

transcriptVars == <<file, filePosition, trackedSize, narrated>>

monitorVars == <<transcriptVars, tempFiles>>

vars == <<engineVars, hubVars, monitorVars>>

\* the five fields the specification calls PlaybackState
PlaybackState == <<audioQueue, isPlayingAudio, micActive, ttsEnabled,
                   currentAudioProcess>>

Event(t, i) == [type |-> t, id |-> i]

\* the two interrupt events; "...Again": micStatus(true) handled right after
\* a micStatus(true), ttsToggle(false) handled while narration is disabled
MicOnEvents == {"micOn", "micOnAgain"}
TtsOffEvents == {"ttsOff", "ttsOffAgain"}
InterruptEvents == MicOnEvents \cup TtsOffEvents

MicEventType(active) ==
  IF ~active THEN "micOff"
  ELSE IF lastEvent.type \in MicOnEvents THEN "micOnAgain" ELSE "micOn"

TtsEventType(enabled) ==
  IF enabled THEN "ttsOn"
  ELSE IF ~ttsEnabled THEN "ttsOffAgain" ELSE "ttsOff"

\* ------------------------------------------------------ Narration Engine

EngineInit ==
  /\ audioQueue = << >>
  /\ isPlayingAudio = FALSE
  /\ micActive = FALSE
  /\ ttsEnabled = TRUE
  /\ currentAudioProcess = 0
  /\ loops = {}
  /\ procs = {}
  /\ wsState = "connecting"
  /\ reconnectTimer = FALSE
  /\ timers = 0
  /\ engineSent = << >>
  /\ nextId = 1
  /\ enqVoice = << >>
  /\ playLog = << >>
  /\ interrupted = {}
  /\ discarded = {}
  /\ dropped = {}
  /\ lastEvent = Event("init", 0)

\* the ids of the items of a queue
Ids(q) == {q[i].id : i \in DOMAIN q}

\* the file of an item is never removed
Unlink_Never(fs, id) == fs

\* `if (fs.existsSync(audioFile)) fs.unlinkSync(audioFile)`
Unlink(fs, id) == fs \ {id}

\* fs.writeFileSync(tempFile, buffer) of textToSpeech
WriteFile(fs, id) == fs \cup {id}

\* currentAudioProcess.kill(): the process stays in procs until its exit
\* callback runs, marked killed
Kill(ps, pid) ==
  {IF p.pid = pid THEN [p EXCEPT !.killed = TRUE] ELSE p : p \in ps}

\* `if (this.currentAudioProcess) this.currentAudioProcess.kill()`
KillCurrent(ps, cur) == IF cur # 0 THEN Kill(ps, cur) ELSE ps

\* condition of the while loop of processAudioQueue
DrainCond(q, tts, mic) == Len(q) > 0 /\ tts /\ ~mic

\* guard of narrate() for calling processAudioQueue
ShouldDrain(playing, mic) == ~playing /\ ~mic

\* playAudio without its `if (this.micActive)` return
CanPlay_IgnoresMic(tts, mic) == tts

\* the two early returns of playAudio passed: the file is played
CanPlay(tts, mic) == tts /\ ~mic

\* One evaluation of the while condition of processAudioQueue by the
\* activation `old` (or by a fresh activation when old = {}): either the
\* head is shifted and its synthesis awaited, or the loop exits and clears
\* isPlayingAudio.
LoopStep(old, q, tts, mic, ls) ==
  IF DrainCond(q, tts, mic)
  THEN /\ audioQueue' = Tail(q)
       /\ loops' = (ls \ old) \cup {[pc |-> "synth", item |-> Head(q)]}
       /\ isPlayingAudio' = isPlayingAudio
  ELSE /\ audioQueue' = q
       /\ loops' = ls \ old
       /\ isPlayingAudio' = FALSE

\* narrate() that enqueues whether narration is enabled or not
NarrateSkips_Never(tts) == FALSE

\* `if (!this.ttsEnabled) return` of narrate()
NarrateSkips(tts) == ~tts

\* narrate(text, voice)
Narrate(voice) ==
  /\ nextId <= MaxItems
  /\ nextId' = nextId + 1
  /\ lastEvent' = Event("narrate", nextId)
  /\ engineSent' = << >>
  /\ IF NarrateSkips(ttsEnabled)
     THEN UNCHANGED <<audioQueue, isPlayingAudio, loops, enqVoice>>
     ELSE LET q == Append(audioQueue, [id |-> nextId, voice |-> voice]) IN
          /\ enqVoice' = [i \in DOMAIN enqVoice \cup {nextId} |->
                            IF i = nextId THEN voice ELSE enqVoice[i]]
          /\ IF ShouldDrain(isPlayingAudio, micActive)
             THEN \* processAudioQueue(): the queue is not empty here
                  /\ isPlayingAudio' = TRUE
                  /\ IF DrainCond(q, ttsEnabled, micActive)
                     THEN /\ audioQueue' = Tail(q)
                          /\ loops' = loops \cup
                                {[pc |-> "synth", item |-> Head(q)]}
                     ELSE /\ audioQueue' = q
                          /\ loops' = loops
             ELSE /\ audioQueue' = q
                  /\ UNCHANGED <<isPlayingAudio, loops>>
  /\ UNCHANGED <<micActive, ttsEnabled, currentAudioProcess, procs, wsState,
                 reconnectTimer, timers,
                 playLog, interrupted, discarded, dropped>>
  /\ UNCHANGED hubVars
  /\ UNCHANGED monitorVars

\* SynthDone in which a failed synthesis ends the activation on the spot:
\* no further loop test is made and isPlayingAudio is left as it is
SynthDone_FailureEndsDrain(l, ok) ==
  /\ l \in loops /\ l.pc = "synth"
  /\ lastEvent' = Event(IF ok THEN "synthOk" ELSE "synthFail", l.item.id)
  /\ engineSent' = << >>
  /\ IF ok /\ CanPlay(ttsEnabled, micActive)
     THEN /\ procs' = KillCurrent(procs, currentAudioProcess)
                        \cup {[pid |-> l.item.id, killed |-> FALSE]}
          /\ currentAudioProcess' = l.item.id
          /\ playLog' = Append(playLog,
                [id |-> l.item.id, voice |-> l.item.voice,
                 stale |-> l.item.id \in interrupted])
          /\ loops' = (loops \ {l}) \cup {[pc |-> "play", item |-> l.item]}
          /\ UNCHANGED <<audioQueue, isPlayingAudio, discarded>>
     ELSE IF ok
     THEN /\ discarded' = discarded \cup {l.item.id}
          /\ LoopStep({l}, audioQueue, ttsEnabled, micActive, loops)
          /\ UNCHANGED <<procs, currentAudioProcess, playLog>>
     ELSE /\ loops' = loops \ {l}
          /\ UNCHANGED <<audioQueue, isPlayingAudio, discarded, procs,
                         currentAudioProcess, playLog>>
  /\ UNCHANGED <<micActive, ttsEnabled, wsState, reconnectTimer, timers,
                 nextId,
                 enqVoice, interrupted, dropped>>
  /\ UNCHANGED hubVars
  /\ tempFiles' = IF ~ok THEN tempFiles
                  ELSE IF CanPlay(ttsEnabled, micActive)
                       THEN WriteFile(tempFiles, l.item.id)
                       ELSE Unlink(WriteFile(tempFiles, l.item.id), l.item.id)
  /\ UNCHANGED transcriptVars

\* textToSpeech() resolves for the activation l: with a file (ok) or with
\* null; then playAudio(file) up to its promise, or the next loop test
SynthDone(l, ok) ==
  /\ l \in loops /\ l.pc = "synth"
  /\ lastEvent' = Event(IF ok THEN "synthOk" ELSE "synthFail", l.item.id)
  /\ engineSent' = << >>
  /\ IF ok /\ CanPlay(ttsEnabled, micActive)
     THEN \* new Promise: kill the current process, player.play(file, cb)
          /\ procs' = KillCurrent(procs, currentAudioProcess)
                        \cup {[pid |-> l.item.id, killed |-> FALSE]}
          /\ currentAudioProcess' = l.item.id
          /\ playLog' = Append(playLog,
                [id |-> l.item.id, voice |-> l.item.voice,
                 stale |-> l.item.id \in interrupted])
          /\ loops' = (loops \ {l}) \cup {[pc |-> "play", item |-> l.item]}
          /\ UNCHANGED <<audioQueue, isPlayingAudio, discarded>>
     ELSE \* no file, or file unlinked by an early return of playAudio
          /\ discarded' = IF ok THEN discarded \cup {l.item.id}
                          ELSE discarded
          /\ LoopStep({l}, audioQueue, ttsEnabled, micActive, loops)
          /\ UNCHANGED <<procs, currentAudioProcess, playLog>>
  /\ UNCHANGED <<micActive, ttsEnabled, wsState, reconnectTimer, timers,
                 nextId,
                 enqVoice, interrupted, dropped>>
  /\ UNCHANGED hubVars
  /\ tempFiles' = IF ~ok THEN tempFiles
                  ELSE IF CanPlay(ttsEnabled, micActive)
                       THEN WriteFile(tempFiles, l.item.id)
                       ELSE Unlink(WriteFile(tempFiles, l.item.id), l.item.id)
  /\ UNCHANGED transcriptVars

\* textToSpeech() resolves with a file for the activation l and playAudio
\* reaches player.play, which fails to launch: the callback given to it
\* runs with the error before any other event, unlinks the file, clears the
\* handle and resolves, and the loop tests its condition again
PlayFail(l) ==
  /\ l \in loops /\ l.pc = "synth"
  /\ CanPlay(ttsEnabled, micActive)
  /\ lastEvent' = Event("playFail", l.item.id)
  /\ engineSent' = << >>
  /\ procs' = KillCurrent(procs, currentAudioProcess)
  /\ currentAudioProcess' = 0
  /\ discarded' = discarded \cup {l.item.id}
  /\ LoopStep({l}, audioQueue, ttsEnabled, micActive, loops)
  /\ UNCHANGED <<micActive, ttsEnabled, wsState, reconnectTimer, timers,
                 nextId,
                 enqVoice, playLog, interrupted, dropped>>
  /\ UNCHANGED hubVars
  /\ tempFiles' = Unlink(WriteFile(tempFiles, l.item.id), l.item.id)
  /\ UNCHANGED transcriptVars

\* the callback given to player.play runs: the process p has exited (by
\* itself or after kill()); the handle is cleared whatever it refers to
ProcExit(p) ==
  /\ p \in procs
  /\ lastEvent' = Event("procExit", p.pid)
  /\ engineSent' = << >>
  /\ procs' = procs \ {p}
  /\ currentAudioProcess' = 0
  /\ LoopStep({l \in loops : l.pc = "play" /\ l.item.id = p.pid},
              audioQueue, ttsEnabled, micActive, loops)
  /\ UNCHANGED <<micActive, ttsEnabled, wsState, reconnectTimer, timers,
                 nextId,
                 enqVoice, playLog, interrupted, discarded, dropped>>
  /\ UNCHANGED hubVars
  /\ tempFiles' = Unlink(tempFiles, p.pid)
  /\ UNCHANGED transcriptVars

\* handleMicStatus that leaves isPlayingAudio as it is
HandleMicStatus_KeepsPlayingFlag(active) ==
  /\ lastEvent' = Event(MicEventType(active), 0)
  /\ engineSent' = << >>
  /\ micActive' = active
  /\ IF active
     THEN /\ procs' = KillCurrent(procs, currentAudioProcess)
          /\ currentAudioProcess' = 0
          /\ audioQueue' = << >>
          /\ interrupted' = DOMAIN enqVoice
          /\ dropped' = dropped \cup Ids(audioQueue)
     ELSE UNCHANGED <<procs, currentAudioProcess, audioQueue, interrupted,
                      dropped>>
  /\ UNCHANGED <<isPlayingAudio, ttsEnabled, loops, wsState,
                 reconnectTimer, timers,
                 
                 nextId, enqVoice, playLog, discarded>>
  /\ UNCHANGED hubVars
  /\ UNCHANGED monitorVars

\* handleMicStatus that shifts the head off the queue instead of emptying it
HandleMicStatus_ShiftsHead(active) ==
  /\ lastEvent' = Event(MicEventType(active), 0)
  /\ engineSent' = << >>
  /\ micActive' = active
  /\ IF active
     THEN /\ procs' = KillCurrent(procs, currentAudioProcess)
          /\ currentAudioProcess' = 0
          /\ audioQueue' = IF audioQueue = << >> THEN << >>
                           ELSE Tail(audioQueue)
          /\ isPlayingAudio' = FALSE
          /\ interrupted' = DOMAIN enqVoice
          /\ dropped' = IF audioQueue = << >> THEN dropped
                        ELSE dropped \cup {Head(audioQueue).id}
     ELSE UNCHANGED <<procs, currentAudioProcess, audioQueue,
                      isPlayingAudio, interrupted, dropped>>
  /\ UNCHANGED <<ttsEnabled, loops, wsState, reconnectTimer, timers, nextId,
                 enqVoice, playLog, discarded>>
  /\ UNCHANGED hubVars
  /\ UNCHANGED monitorVars

\* handleMicStatus(active); this.pausedAudioFile is never assigned, so the
\* unlink branch is dead
HandleMicStatus(active) ==
  /\ lastEvent' = Event(MicEventType(active), 0)
  /\ engineSent' = << >>
  /\ micActive' = active
  /\ IF active
     THEN /\ procs' = KillCurrent(procs, currentAudioProcess)
          /\ currentAudioProcess' = 0
          /\ audioQueue' = << >>
          /\ isPlayingAudio' = FALSE
          /\ interrupted' = DOMAIN enqVoice
          /\ dropped' = dropped \cup Ids(audioQueue)
     ELSE UNCHANGED <<procs, currentAudioProcess, audioQueue,
                      isPlayingAudio, interrupted, dropped>>
  /\ UNCHANGED <<ttsEnabled, loops, wsState, reconnectTimer, timers, nextId,
                 enqVoice, playLog, discarded>>
  /\ UNCHANGED hubVars
  /\ UNCHANGED monitorVars

\* handleTTSToggle that, when enabling, only re-arms: it leaves the queue,
\* isPlayingAudio and the playback process alone
HandleTTSToggle_ReArmOnly(enabled) ==
  /\ lastEvent' = Event(TtsEventType(enabled), 0)
  /\ ttsEnabled' = enabled
  /\ IF enabled
     THEN UNCHANGED <<procs, currentAudioProcess, audioQueue,
                      isPlayingAudio, interrupted, dropped>>
     ELSE /\ procs' = KillCurrent(procs, currentAudioProcess)
          /\ currentAudioProcess' = 0
          /\ audioQueue' = << >>
          /\ isPlayingAudio' = FALSE
          /\ interrupted' = DOMAIN enqVoice
          /\ dropped' = dropped \cup Ids(audioQueue)
  /\ engineSent' = IF wsState = "open"
                   THEN <<[type |-> "ttsStateConfirm", enabled |-> enabled]>>
                   ELSE << >>
  /\ UNCHANGED <<micActive, loops, wsState, reconnectTimer, timers, nextId,
                 enqVoice, playLog, discarded>>
  /\ UNCHANGED hubVars
  /\ UNCHANGED monitorVars

\* handleTTSToggle(enabled)
HandleTTSToggle(enabled) ==
  /\ lastEvent' = Event(TtsEventType(enabled), 0)
  /\ ttsEnabled' = enabled
  /\ procs' = KillCurrent(procs, currentAudioProcess)
  /\ currentAudioProcess' = 0
  /\ audioQueue' = << >>
  /\ isPlayingAudio' = FALSE
  /\ interrupted' = IF enabled THEN interrupted ELSE DOMAIN enqVoice
  /\ dropped' = dropped \cup Ids(audioQueue)
  /\ engineSent' = IF wsState = "open"
                   THEN <<[type |-> "ttsStateConfirm", enabled |-> enabled]>>
                   ELSE << >>
  /\ UNCHANGED <<micActive, loops, wsState, reconnectTimer, timers, nextId,
                 enqVoice, playLog, discarded>>
  /\ UNCHANGED hubVars
  /\ UNCHANGED monitorVars

\* ws 'open' callback of connect(): identify as receiver 'Mac Server'
WsOpen ==
  /\ wsState = "connecting"
  /\ wsState' = "open"
  /\ lastEvent' = Event("wsOpen", 0)
  /\ engineSent' = <<[type |-> "identify", enabled |-> FALSE]>>
  /\ UNCHANGED <<audioQueue, isPlayingAudio, micActive, ttsEnabled,
                 currentAudioProcess, loops, procs, reconnectTimer, timers,
                 nextId,
                 enqVoice, playLog, interrupted, discarded, dropped>>
  /\ UNCHANGED hubVars
  /\ UNCHANGED monitorVars

\* scheduleReconnect(): the field and the number of pending callbacks after
\* the call, from their values before it
ScheduleReconnect(timer, n) ==
  IF timer THEN [timer |-> timer, timers |-> n]
  ELSE [timer |-> TRUE, timers |-> n + 1]

\* ws 'close' callback of connect(), then scheduleReconnect()
WsClose ==
  /\ wsState \in {"connecting", "open"}
  /\ wsState' = "closed"
  /\ LET r == ScheduleReconnect(reconnectTimer, timers) IN
     /\ reconnectTimer' = r.timer
     /\ timers' = r.timers
  /\ lastEvent' = Event("wsClose", 0)
  /\ engineSent' = << >>
  /\ UNCHANGED <<audioQueue, isPlayingAudio, micActive, ttsEnabled,
                 currentAudioProcess, loops, procs, nextId, enqVoice,
                 playLog, interrupted, discarded, dropped>>
  /\ UNCHANGED hubVars
  /\ UNCHANGED monitorVars

\* the timer callback without its `this.reconnectTimer = null`
ReconnectFire_KeepsField ==
  /\ timers > 0
  /\ timers' = timers - 1
  /\ reconnectTimer' = reconnectTimer
  /\ wsState' = "connecting"
  /\ lastEvent' = Event("reconnect", 0)
  /\ engineSent' = << >>
  /\ UNCHANGED <<audioQueue, isPlayingAudio, micActive, ttsEnabled,
                 currentAudioProcess, loops, procs, nextId, enqVoice,
                 playLog, interrupted, discarded, dropped>>
  /\ UNCHANGED hubVars
  /\ UNCHANGED monitorVars

\* a callback of the setTimeout of scheduleReconnect runs: the field is
\* cleared, then connect()
ReconnectFire ==
  /\ timers > 0
  /\ timers' = timers - 1
  /\ reconnectTimer' = FALSE
  /\ wsState' = "connecting"
  /\ lastEvent' = Event("reconnect", 0)
  /\ engineSent' = << >>
  /\ UNCHANGED <<audioQueue, isPlayingAudio, micActive, ttsEnabled,
                 currentAudioProcess, loops, procs, nextId, enqVoice,
                 playLog, interrupted, discarded, dropped>>
  /\ UNCHANGED hubVars
  /\ UNCHANGED monitorVars


\* ------------------------------------------------------------- Relay Hub

\* `message.sampleRate || 44100`, `message.languageCode || 'en-US'`
DefaultSampleRate == 44100
DefaultLanguage == "en-US"

\* ids Date.now() gives to the pings of the probes explored
PingIds == 1..(MaxProbes + 1)

\* the fixed transcript of the emergency path
EmergencyText == <<"HELP BUTTON PRESSED">>

\* envelopes the hub sends
InfoMsg == [type |-> "info"]
ErrorMsg(e) == [type |-> "error", error |-> e]
TranscriptMsg(full, delta, isFinal) ==
  [type |-> "transcript", transcript |-> full, delta |-> delta,
   isFinal |-> isFinal]
HelpAckMsg == [type |-> "helpMessageReceived"]
ForwardingStatusMsg(f) == [type |-> "forwardingStatus", forwarding |-> f]
PingMsg(id) == [type |-> "ping", pingId |-> id]
ConnectionMsg(status, ctype, up) ==
  [type |-> "connection", status |-> status, clientType |-> ctype,
   macServer |-> up]
TtsToggleMsg(e) == [type |-> "ttsToggle", enabled |-> e]
TtsStateMsg(e) == [type |-> "ttsState", enabled |-> e]
StatusUpdateMsg(up) == [type |-> "serverStatusUpdate", macServer |-> up]

\* an inbound frame as far as the once-listeners of the probes look at it
Frame(t, id) == [type |-> t, pingId |-> id]

HubEv(t, c) == [type |-> t, conn |-> c]


HubInit ==
  /\ connState = [c \in Conns |-> "new"]
  /\ clientType = [c \in Conns |-> "transcriber"]
  /\ receivers = << >>
  /\ transcribers = {}
  /\ recognizeStream = [c \in Conns |-> 0]
  /\ previousTranscript = [c \in Conns |-> << >>]
  /\ forwardingEnabled = [c \in Conns |-> TRUE]
  /\ streams = {}
  /\ nextStream = 1
  /\ probes = << >>
  /\ sent = << >>
  /\ written = {}
  /\ hubEvent = HubEv("init", NoConn)
  /\ sessionPrevious = [i \in 1..MaxSessions |-> << >>]

\* ws.send(m) on the connection c: dropped unless c is OPEN
SendOn(open, c, m) ==
  IF open[c] = "open" THEN <<[to |-> c, msg |-> m]>> ELSE << >>
Send(c, m) == SendOn(connState, c, m)

\* Map.get, Map.set (an existing key keeps its place) and the loop of the
\* close handler, which deletes the first entry whose socket is ws
MapGet(m, name) ==
  IF \E i \in DOMAIN m : m[i].name = name
  THEN m[CHOOSE i \in DOMAIN m : m[i].name = name].ws
  ELSE NoConn
MapSet(m, name, ws) ==
  IF \E i \in DOMAIN m : m[i].name = name
  THEN [i \in DOMAIN m |-> IF m[i].name = name
                           THEN [name |-> name, ws |-> ws] ELSE m[i]]
  ELSE Append(m, [name |-> name, ws |-> ws])
\* a close handler that deletes the first entry whatever its socket is
DeleteFirst_Head(m, ws) == IF m = << >> THEN m ELSE Tail(m)

DeleteFirst(m, ws) ==
  LET idx == {i \in DOMAIN m : m[i].ws = ws} IN
  IF idx = {} THEN m
  ELSE LET k == CHOOSE i \in idx : \A j \in idx : i <= j IN
       SubSeq(m, 1, k - 1) \o SubSeq(m, k + 1, Len(m))

\* transcript.startsWith(previousTranscript), transcript.substring(n)
StartsWith(t, pre) == Len(pre) <= Len(t) /\ SubSeq(t, 1, Len(pre)) = pre
Substring(t, n) == SubSeq(t, n + 1, Len(t))

\* delta of a recognition result against previousTranscript
Delta(prev, transcript) ==
  IF StartsWith(transcript, prev) THEN Substring(transcript, Len(prev))
  ELSE transcript

\* previousTranscript after a recognition result
NextPrevious(transcript, isFinal) == IF isFinal THEN << >> ELSE transcript

\* start without the receiver test
CostGateBlocks_Never(rcvrs) == FALSE

\* `clients.receivers.size === 0`: start opens no session
CostGateBlocks(rcvrs) == Len(rcvrs) = 0

\* `for (const [name, receiver] of clients.receivers.entries())
\*    if (receiver.readyState === receiver.OPEN) receiver.send(m)`
RECURSIVE Broadcast(_, _)
Broadcast(rcvrs, m) ==
  IF rcvrs = << >> THEN << >>
  ELSE Send(Head(rcvrs).ws, m) \o Broadcast(Tail(rcvrs), m)

\* the reply a getServerStatuses caller sends once the statuses are known
ProbeReply(open, ctype, c, kind, up) ==
  SendOn(open, c, IF kind = "statusUpdate" THEN StatusUpdateMsg(up)
                  ELSE ConnectionMsg(kind, ctype[c], up))

\* the Mac Server receiver is registered and its readyState is 1
MacServerReady(rcvrs, open) ==
  /\ MapGet(rcvrs, MacServerName) # NoConn
  /\ open[MapGet(rcvrs, MacServerName)] = "open"

\* getServerStatuses() called on behalf of c: a ping with a once-listener
\* and a 1000 ms timer, or an immediate answer "Mac Server": false
GetServerStatuses(c, kind, pid, rcvrs, open, ctype) ==
  IF MacServerReady(rcvrs, open)
  THEN [out |-> <<[to |-> MapGet(rcvrs, MacServerName), msg |-> PingMsg(pid)]>>,
        started |-> <<[to |-> c, kind |-> kind,
                       target |-> MapGet(rcvrs, MacServerName),
                       pingId |-> pid, listening |-> TRUE]>>]
  ELSE [out |-> ProbeReply(open, ctype, c, kind, FALSE), started |-> << >>]

\* the bounds leave room for the call, and Date.now() does not go back
ProbeRoom(pid, rcvrs, open) ==
  IF MacServerReady(rcvrs, open)
  THEN /\ Len(probes) < MaxProbes
       /\ \A i \in DOMAIN probes : probes[i].pingId <= pid
  ELSE pid = 1

RECURSIVE PongReplies(_, _, _, _)
PongReplies(ps, c, frame, ctype) ==
  IF ps = << >> THEN << >>
  ELSE LET p == Head(ps) IN
       (IF /\ p.target = c /\ p.listening
           /\ frame.type = "pong" /\ frame.pingId = p.pingId
        THEN ProbeReply(connState, ctype, p.to, p.kind, TRUE)
        ELSE << >>) \o PongReplies(Tail(ps), c, frame, ctype)

\* the once('message') listeners of the pending probes on connection c run
\* after the message handler: each is consumed by this frame, and resolves
\* its probe only if the frame is the pong with its pingId
AfterMessageAs(c, frame, out, started, ctype) ==
  LET hit(p) == /\ p.target = c /\ p.listening
                /\ frame.type = "pong" /\ frame.pingId = p.pingId
      rest == SelectSeq(probes, LAMBDA p : ~hit(p))
  IN /\ probes' = [i \in DOMAIN rest |->
                     IF rest[i].target = c
                     THEN [rest[i] EXCEPT !.listening = FALSE]
                     ELSE rest[i]] \o started
     /\ sent' = out \o PongReplies(probes, c, frame, ctype)

AfterMessage(c, frame, out, started) ==
  AfterMessageAs(c, frame, out, started, clientType)

\* wss 'connection'
Connect(c, pid) ==
  /\ connState[c] = "new"
  /\ LET open == [connState EXCEPT ![c] = "open"] IN
     /\ ProbeRoom(pid, receivers, open)
     /\ connState' = open
     /\ LET g == GetServerStatuses(c, "connected", pid, receivers, open,
                                   clientType) IN
        /\ probes' = probes \o g.started
        /\ sent' = g.out
  /\ written' = {}
  /\ hubEvent' = HubEv("connect", c)
  /\ UNCHANGED <<clientType, receivers, transcribers, recognizeStream,
                 previousTranscript, forwardingEnabled, streams, nextStream,
                 sessionPrevious>>
  /\ UNCHANGED engineVars
  /\ UNCHANGED monitorVars

\* message.type === 'identify'
Identify(c, ctype, name, pid) ==
  /\ connState[c] = "open"
  /\ clientType' = [clientType EXCEPT ![c] = ctype]
  /\ IF ctype = "receiver"
     THEN /\ receivers' = MapSet(receivers, name, c)
          /\ transcribers' = transcribers
     ELSE /\ transcribers' = transcribers \cup {c}
          /\ receivers' = receivers
  /\ ProbeRoom(pid, receivers', connState)
  /\ LET g == GetServerStatuses(c, "identified", pid, receivers', connState,
                                clientType') IN
     AfterMessageAs(c, Frame("identify", 0), g.out, g.started, clientType')
  /\ written' = {}
  /\ hubEvent' = HubEv("identify", c)
  /\ UNCHANGED <<connState, recognizeStream, previousTranscript,
                 forwardingEnabled, streams, nextStream, sessionPrevious>>
  /\ UNCHANGED engineVars
  /\ UNCHANGED monitorVars

\* a start that opens every session at the default rate
SampleRateOf_AlwaysDefault(rate) == DefaultSampleRate

\* `message.sampleRate || 44100` and `message.languageCode || 'en-US'`
SampleRateOf(rate) == IF rate = 0 THEN DefaultSampleRate ELSE rate
LanguageOf(lang) == IF lang = "" THEN DefaultLanguage ELSE lang

\* message.type === 'start'
Start(c, rate, lang) ==
  /\ connState[c] = "open"
  /\ IF CostGateBlocks(receivers)
     THEN /\ AfterMessage(c, Frame("start", 0), Send(c, InfoMsg), << >>)
          /\ UNCHANGED <<recognizeStream, streams, nextStream>>
     ELSE /\ nextStream <= MaxSessions
          /\ streams' = streams \cup
               {[id |-> nextStream, owner |-> c, state |-> "open",
                 rate |-> SampleRateOf(rate),
                 lang |-> LanguageOf(lang)]}
          /\ recognizeStream' = [recognizeStream EXCEPT ![c] = nextStream]
          /\ nextStream' = nextStream + 1
          /\ AfterMessage(c, Frame("start", 0), << >>, << >>)
  /\ written' = {}
  /\ hubEvent' = HubEv("start", c)
  /\ UNCHANGED <<connState, clientType, receivers, transcribers,
                 previousTranscript, forwardingEnabled, sessionPrevious>>
  /\ UNCHANGED engineVars
  /\ UNCHANGED monitorVars

\* recognizeStream.end()
EndStream(ss, id) ==
  {IF s.id = id THEN [s EXCEPT !.state = "ended"] ELSE s : s \in ss}

\* message.type === 'stop'
Stop(c) ==
  /\ connState[c] = "open"
  /\ IF recognizeStream[c] # 0
     THEN /\ streams' = EndStream(streams, recognizeStream[c])
          /\ recognizeStream' = [recognizeStream EXCEPT ![c] = 0]
     ELSE UNCHANGED <<streams, recognizeStream>>
  /\ AfterMessage(c, Frame("stop", 0), << >>, << >>)
  /\ written' = {}
  /\ hubEvent' = HubEv("stop", c)
  /\ UNCHANGED <<connState, clientType, receivers, transcribers,
                 previousTranscript, forwardingEnabled, nextStream,
                 sessionPrevious>>
  /\ UNCHANGED engineVars
  /\ UNCHANGED monitorVars

\* message.type === 'stopForwarding' (f = FALSE), 'startForwarding' (TRUE)
SetForwarding(c, f) ==
  /\ connState[c] = "open"
  /\ forwardingEnabled' = [forwardingEnabled EXCEPT ![c] = f]
  /\ AfterMessage(c, Frame("forwarding", 0),
                  Send(c, ForwardingStatusMsg(f)), << >>)
  /\ written' = {}
  /\ hubEvent' = HubEv(IF f THEN "startForwarding" ELSE "stopForwarding", c)
  /\ UNCHANGED <<connState, clientType, receivers, transcribers,
                 recognizeStream, previousTranscript, streams, nextStream,
                 sessionPrevious>>
  /\ UNCHANGED engineVars
  /\ UNCHANGED monitorVars

\* `Buffer.isBuffer(data) && data.length > 100`: the frame is taken for
\* audio and written to the stream of the connection, if it has one
AudioBranch(c) ==
  IF recognizeStream[c] # 0
  THEN {s.id : s \in {t \in streams : t.id = recognizeStream[c]}}
  ELSE {}

\* an identify envelope whose JSON text is longer than 100 bytes (a long
\* clientName): it is taken for audio before it is parsed
IdentifyLong(c) ==
  /\ connState[c] = "open"
  /\ written' = AudioBranch(c)
  /\ AfterMessage(c, Frame("identify", 0), << >>, << >>)
  /\ hubEvent' = HubEv("identify", c)
  /\ UNCHANGED <<connState, clientType, receivers, transcribers,
                 recognizeStream, previousTranscript, forwardingEnabled,
                 streams, nextStream, sessionPrevious>>
  /\ UNCHANGED engineVars
  /\ UNCHANGED monitorVars

\* a binary audio frame of more than 100 bytes
Audio(c) ==
  /\ connState[c] = "open"
  /\ written' = AudioBranch(c)
  /\ AfterMessage(c, Frame("audio", 0), << >>, << >>)
  /\ hubEvent' = HubEv("audio", c)
  /\ UNCHANGED <<connState, clientType, receivers, transcribers,
                 recognizeStream, previousTranscript, forwardingEnabled,
                 streams, nextStream, sessionPrevious>>
  /\ UNCHANGED engineVars
  /\ UNCHANGED monitorVars

\* a helpMessage envelope; long: its JSON text is longer than 100 bytes,
\* as that of the iOS client (GoogleBackend.sendHelpMessage) is. ws hands
\* every frame to the handler as a Buffer, so the length test comes first.
\* bad: the consumer whose socket fails the write (NoConn: none does); ws
\* reports a failed write through the 'error' event of that socket, not by
\* throwing from send(), so the loop goes on.
HelpDelivery(c, long, bad) ==
  /\ connState[c] = "open"
  /\ IF long
     THEN /\ written' = AudioBranch(c)
          /\ AfterMessage(c, Frame("helpMessage", 0), << >>, << >>)
     ELSE /\ written' = {}
          /\ AfterMessage(c, Frame("helpMessage", 0),
               Broadcast(receivers,
                         TranscriptMsg(EmergencyText, EmergencyText, TRUE))
                 \o Send(c, HelpAckMsg), << >>)
  /\ hubEvent' = IF bad = NoConn
                 THEN [type |-> "helpMessage", conn |-> c, long |-> long]
                 ELSE [type |-> "helpMessage", conn |-> c, long |-> long,
                       failing |-> bad]
  /\ UNCHANGED <<connState, clientType, receivers, transcribers,
                 recognizeStream, previousTranscript, forwardingEnabled,
                 streams, nextStream, sessionPrevious>>
  /\ UNCHANGED engineVars
  /\ UNCHANGED monitorVars

\* a helpMessage all of whose sends succeed
HelpMessage(c, long) == HelpDelivery(c, long, NoConn)

\* a payload that starts with '{' and is not valid JSON: JSON.parse throws
\* and the catch block replies; one of more than 100 bytes is taken for
\* audio before it is parsed
Malformed(c, long) ==
  /\ connState[c] = "open"
  /\ IF long
     THEN /\ written' = AudioBranch(c)
          /\ AfterMessage(c, Frame("malformed", 0), << >>, << >>)
     ELSE /\ written' = {}
          /\ AfterMessage(c, Frame("malformed", 0),
                          Send(c, ErrorMsg("parse")), << >>)
  /\ hubEvent' = [type |-> "malformed", conn |-> c, long |-> long]
  /\ UNCHANGED <<connState, clientType, receivers, transcribers,
                 recognizeStream, previousTranscript, forwardingEnabled,
                 streams, nextStream, sessionPrevious>>
  /\ UNCHANGED engineVars
  /\ UNCHANGED monitorVars

\* the final else of the dispatch: a type outside the catalog is logged
UnknownType(c) ==
  /\ connState[c] = "open"
  /\ written' = {}
  /\ AfterMessage(c, Frame("unknown", 0), << >>, << >>)
  /\ hubEvent' = HubEv("unknown", c)
  /\ UNCHANGED <<connState, clientType, receivers, transcribers,
                 recognizeStream, previousTranscript, forwardingEnabled,
                 streams, nextStream, sessionPrevious>>
  /\ UNCHANGED engineVars
  /\ UNCHANGED monitorVars

\* message.type === 'ttsToggle': forwarded to the Mac Server, or an error
\* to the sender if that is not connected
TtsToggle(c, e) ==
  /\ connState[c] = "open"
  /\ AfterMessage(c, Frame("ttsToggle", 0),
        IF MacServerReady(receivers, connState)
        THEN Send(MapGet(receivers, MacServerName), TtsToggleMsg(e))
        ELSE Send(c, ErrorMsg("Mac Server not connected")), << >>)
  /\ written' = {}
  /\ hubEvent' = [type |-> "ttsToggle", conn |-> c, enabled |-> e]
  /\ UNCHANGED <<connState, clientType, receivers, transcribers,
                 recognizeStream, previousTranscript, forwardingEnabled,
                 streams, nextStream, sessionPrevious>>
  /\ UNCHANGED engineVars
  /\ UNCHANGED monitorVars

\* envelopes of the two other control messages the hub forwards
KeyPressMsg(key) == [type |-> "keyPress", key |-> key]
MicStatusMsg(a) == [type |-> "micStatus", active |-> a]

\* message.type === 'keyPress': forwarded to every open receiver
KeyPress(c, key) ==
  /\ connState[c] = "open"
  /\ AfterMessage(c, Frame("keyPress", 0),
                  Broadcast(receivers, KeyPressMsg(key)), << >>)
  /\ written' = {}
  /\ hubEvent' = [type |-> "keyPress", conn |-> c, key |-> key]
  /\ UNCHANGED <<connState, clientType, receivers, transcribers,
                 recognizeStream, previousTranscript, forwardingEnabled,
                 streams, nextStream, sessionPrevious>>
  /\ UNCHANGED engineVars
  /\ UNCHANGED monitorVars

\* micStatus forwarded like keyPress, to every open receiver
MicStatus_Broadcast(c, a) ==
  /\ connState[c] = "open"
  /\ AfterMessage(c, Frame("micStatus", 0),
                  Broadcast(receivers, MicStatusMsg(a)), << >>)
  /\ written' = {}
  /\ hubEvent' = [type |-> "micStatus", conn |-> c, active |-> a]
  /\ UNCHANGED <<connState, clientType, receivers, transcribers,
                 recognizeStream, previousTranscript, forwardingEnabled,
                 streams, nextStream, sessionPrevious>>
  /\ UNCHANGED engineVars
  /\ UNCHANGED monitorVars

\* message.type === 'micStatus': forwarded to the Mac Server if it is
\* connected, otherwise only logged
MicStatus(c, a) ==
  /\ connState[c] = "open"
  /\ AfterMessage(c, Frame("micStatus", 0),
        IF MacServerReady(receivers, connState)
        THEN Send(MapGet(receivers, MacServerName), MicStatusMsg(a))
        ELSE << >>, << >>)
  /\ written' = {}
  /\ hubEvent' = [type |-> "micStatus", conn |-> c, active |-> a]
  /\ UNCHANGED <<connState, clientType, receivers, transcribers,
                 recognizeStream, previousTranscript, forwardingEnabled,
                 streams, nextStream, sessionPrevious>>
  /\ UNCHANGED engineVars
  /\ UNCHANGED monitorVars

\* the loop over clients.transcribers of the ttsStateConfirm branch; the
\* order of the sends among the transcribers is that of ConnOrder here
RECURSIVE ToTranscribers(_, _, _)
ToTranscribers(order, ts, m) ==
  IF order = << >> THEN << >>
  ELSE (IF Head(order) \in ts THEN Send(Head(order), m) ELSE << >>)
         \o ToTranscribers(Tail(order), ts, m)

\* the ttsStateConfirm branch sending to the sender of the confirmation
ConfirmTargets_SenderOnly(c, ts) == {c}

\* the sockets the ttsStateConfirm branch loops over
ConfirmTargets(c, ts) == ts

\* message.type === 'ttsStateConfirm': rebroadcast as ttsState
TtsStateConfirm(c, e) ==
  /\ connState[c] = "open"
  /\ AfterMessage(c, Frame("ttsStateConfirm", 0),
        ToTranscribers(ConnOrder, ConfirmTargets(c, transcribers),
                       TtsStateMsg(e)), << >>)
  /\ written' = {}
  /\ hubEvent' = [type |-> "ttsStateConfirm", conn |-> c, enabled |-> e]
  /\ UNCHANGED <<connState, clientType, receivers, transcribers,
                 recognizeStream, previousTranscript, forwardingEnabled,
                 streams, nextStream, sessionPrevious>>
  /\ UNCHANGED engineVars
  /\ UNCHANGED monitorVars

\* message.type === 'pong': the handler does nothing, the listeners run
Pong(c, id) ==
  /\ connState[c] = "open"
  /\ AfterMessage(c, Frame("pong", id), << >>, << >>)
  /\ written' = {}
  /\ hubEvent' = HubEv("pong", c)
  /\ UNCHANGED <<connState, clientType, receivers, transcribers,
                 recognizeStream, previousTranscript, forwardingEnabled,
                 streams, nextStream, sessionPrevious>>
  /\ UNCHANGED engineVars
  /\ UNCHANGED monitorVars

\* message.type === 'requestStatus'
RequestStatus(c, pid) ==
  /\ connState[c] = "open"
  /\ ProbeRoom(pid, receivers, connState)
  /\ LET g == GetServerStatuses(c, "statusUpdate", pid, receivers, connState,
                                clientType) IN
     AfterMessage(c, Frame("requestStatus", 0), g.out, g.started)
  /\ written' = {}
  /\ hubEvent' = HubEv("requestStatus", c)
  /\ UNCHANGED <<connState, clientType, receivers, transcribers,
                 recognizeStream, previousTranscript, forwardingEnabled,
                 streams, nextStream, sessionPrevious>>
  /\ UNCHANGED engineVars
  /\ UNCHANGED monitorVars

\* the timeout of a probe that also drops the consumer it pinged
ProbeTimeout_DropsConsumer(i) ==
  /\ i \in DOMAIN probes
  /\ probes' = SubSeq(probes, 1, i - 1) \o SubSeq(probes, i + 1, Len(probes))
  /\ sent' = ProbeReply(connState, clientType, probes[i].to, probes[i].kind,
                        FALSE)
  /\ receivers' = DeleteFirst(receivers, probes[i].target)
  /\ written' = {}
  /\ hubEvent' = HubEv("probeTimeout", probes[i].to)
  /\ UNCHANGED <<connState, clientType, transcribers,
                 recognizeStream, previousTranscript, forwardingEnabled,
                 streams, nextStream, sessionPrevious>>
  /\ UNCHANGED engineVars
  /\ UNCHANGED monitorVars

\* setTimeout(() => resolve(false), 1000) of the probe probes[i] fires
ProbeTimeout(i) ==
  /\ i \in DOMAIN probes
  /\ probes' = SubSeq(probes, 1, i - 1) \o SubSeq(probes, i + 1, Len(probes))
  /\ sent' = ProbeReply(connState, clientType, probes[i].to, probes[i].kind,
                        FALSE)
  /\ written' = {}
  /\ hubEvent' = HubEv("probeTimeout", probes[i].to)
  /\ UNCHANGED <<connState, clientType, receivers, transcribers,
                 recognizeStream, previousTranscript, forwardingEnabled,
                 streams, nextStream, sessionPrevious>>
  /\ UNCHANGED engineVars
  /\ UNCHANGED monitorVars

\* the fan-out of a transcript without the forwardingEnabled test
FanOut_IgnoresFlag(enabled, rcvrs, m) == Broadcast(rcvrs, m)

\* `if (forwardingEnabled)` around the loop over the receivers
FanOut(enabled, rcvrs, m) == IF enabled THEN Broadcast(rcvrs, m) ELSE << >>

\* recognizeStream.on('data') with a first result that has an alternative
OnData(s, transcript, isFinal) ==
  /\ s \in streams
  /\ LET c == s.owner
         m == TranscriptMsg(transcript,
                            Delta(previousTranscript[c], transcript), isFinal)
     IN /\ sent' = Send(c, m) \o FanOut(forwardingEnabled[c], receivers, m)
        /\ previousTranscript' =
             [previousTranscript EXCEPT ![c] = NextPrevious(transcript, isFinal)]
        /\ sessionPrevious' =
             [sessionPrevious EXCEPT
                ![s.id] = IF isFinal THEN << >> ELSE transcript]
        /\ hubEvent' = [type |-> "data", conn |-> c, stream |-> s.id,
                        full |-> transcript, isFinal |-> isFinal,
                        before |-> sessionPrevious[s.id]]
  /\ written' = {}
  /\ UNCHANGED <<connState, clientType, receivers, transcribers,
                 recognizeStream, forwardingEnabled, streams, nextStream,
                 probes>>
  /\ UNCHANGED engineVars
  /\ UNCHANGED monitorVars

\* recognizeStream.on('error'): the stream is destroyed
StreamError(s) ==
  /\ s \in streams
  /\ streams' = streams \ {s}
  /\ sent' = Send(s.owner, ErrorMsg("recognition"))
  /\ recognizeStream' = [recognizeStream EXCEPT ![s.owner] = 0]
  /\ written' = {}
  /\ hubEvent' = [type |-> "streamError", conn |-> s.owner, stream |-> s.id]
  /\ sessionPrevious' = [sessionPrevious EXCEPT ![s.id] = << >>]
  /\ UNCHANGED <<connState, clientType, receivers, transcribers,
                 previousTranscript, forwardingEnabled, nextStream, probes>>
  /\ UNCHANGED engineVars
  /\ UNCHANGED monitorVars

\* an ended stream has delivered its last result and closes
StreamFinish(s) ==
  /\ s \in streams /\ s.state = "ended"
  /\ streams' = streams \ {s}
  /\ sent' = << >>
  /\ written' = {}
  /\ hubEvent' = [type |-> "streamFinish", conn |-> s.owner, stream |-> s.id]
  /\ sessionPrevious' = [sessionPrevious EXCEPT ![s.id] = << >>]
  /\ UNCHANGED <<connState, clientType, receivers, transcribers,
                 recognizeStream, previousTranscript, forwardingEnabled,
                 nextStream, probes>>
  /\ UNCHANGED engineVars
  /\ UNCHANGED monitorVars

\* ws 'close'
Close(c) ==
  /\ connState[c] = "open"
  /\ connState' = [connState EXCEPT ![c] = "closed"]
  /\ receivers' = DeleteFirst(receivers, c)
  /\ transcribers' = transcribers \ {c}
  /\ streams' = IF recognizeStream[c] # 0
                THEN EndStream(streams, recognizeStream[c]) ELSE streams
  /\ sent' = << >>
  /\ written' = {}
  /\ hubEvent' = HubEv("close", c)
  /\ UNCHANGED <<clientType, recognizeStream, previousTranscript,
                 forwardingEnabled, nextStream, probes, sessionPrevious>>
  /\ UNCHANGED engineVars
  /\ UNCHANGED monitorVars

\* Endpoints with the same role are interchangeable: they connect in the
\* order of ConnOrder.
SameRole(c, d, P, K) == (c \in P <=> d \in P) /\ (c \in K <=> d \in K)
IsNextConn(c, P, K) ==
  \E i \in DOMAIN ConnOrder :
     /\ ConnOrder[i] = c
     /\ \A j \in 1..(i - 1) :
          SameRole(c, ConnOrder[j], P, K) => connState[ConnOrder[j]] # "new"

\* Message groups of the hub. P: endpoints acting as producers (the
\* messages of the iOS client); K: endpoints acting as consumers, which
\* identify under a name of N; T: transcripts the recognition streams
\* deliver.
HubConnections(P, K, N) ==
  \/ \E c \in P \cup K, pid \in PingIds :
        IsNextConn(c, P, K) /\ Connect(c, pid)
  \/ \E c \in P, pid \in PingIds : Identify(c, "transcriber", "iPhone", pid)
  \/ \E c \in K, n \in N, pid \in PingIds : Identify(c, "receiver", n, pid)
  \/ \E c \in P \cup K : Close(c)

HubSessions(P, C) ==
  \/ \E c \in P, cfg \in C : Start(c, cfg.rate, cfg.lang)
  \/ \E c \in P : Stop(c)
  \/ \E s \in streams : StreamError(s)
  \/ \E s \in streams : StreamFinish(s)

HubResults(T) ==
  \E s \in streams, t \in T, f \in BOOLEAN : OnData(s, t, f)

HubControl(P) ==
  \/ \E c \in P, f \in BOOLEAN : SetForwarding(c, f)
  \/ \E c \in P : Audio(c)
  \/ \E c \in P, long \in BOOLEAN : HelpMessage(c, long)

\* payloads the dispatch does not serve as their sender means them; one
\* send of a helpMessage to a consumer of K may fail
HubFaults(P, K) ==
  \/ \E c \in P, long \in BOOLEAN, bad \in K : HelpDelivery(c, long, bad)
  \/ \E c \in P, long \in BOOLEAN : Malformed(c, long)
  \/ \E c \in P : UnknownType(c)

HubProbes(P, K) ==
  \/ \E c \in K, id \in PingIds : Pong(c, id)
  \/ \E c \in P, pid \in PingIds : RequestStatus(c, pid)
  \/ \E i \in DOMAIN probes : ProbeTimeout(i)

\* ------------------------------------------------ the transcript monitor

\* bound on the size of the transcript, in bytes
MaxBytes == 8

\* An entry of the transcript is one line of JSON. Its first byte tells
\* its kind: "A" opens an assistant entry with one text item, "B" one with
\* two text items, "U" an entry of another type. Its text may hold one
\* character of two bytes in UTF-8, "L" (lead) and "T" (trail). The bytes
\* "q" and "}" close it, so that a line cut short is not valid JSON. "n"
\* is the newline.
EntryKinds == {"A", "B", "U"}
Bytes == EntryKinds \cup {"L", "T", "q", "}", "n"}

\* the bytes the writer of the transcript can append next
NextBytes(f) ==
  IF f = << >> \/ f[Len(f)] = "n" THEN EntryKinds
  ELSE IF f[Len(f)] \in EntryKinds THEN {"L", "q"}
  ELSE IF f[Len(f)] = "L" THEN {"T"}
  ELSE IF f[Len(f)] = "T" THEN {"q"}
  ELSE IF f[Len(f)] = "q" THEN {"}"}
  ELSE {"n"}

MonitorInit ==
  /\ file = << >>
  /\ filePosition = 0
  /\ trackedSize = -1
  /\ narrated = << >>
  /\ tempFiles = {}

\* fs.readFileSync(path, 'utf8'): the characters the bytes decode to; the
\* pair L T is the character "LT", a lead byte the file ends after is
\* replaced by U+FFFD
RECURSIVE Decode(_)
Decode(f) ==
  IF f = << >> THEN << >>
  ELSE IF f[1] = "L"
       THEN IF Len(f) >= 2 /\ f[2] = "T"
            THEN <<"LT">> \o Decode(SubSeq(f, 3, Len(f)))
            ELSE <<"FFFD">> \o Decode(Tail(f))
       ELSE <<f[1]>> \o Decode(Tail(f))

\* Buffer.byteLength of a string: U+FFFD takes three bytes in UTF-8
RECURSIVE ByteLength(_)
ByteLength(str) ==
  IF str = << >> THEN 0
  ELSE (IF Head(str) = "FFFD" THEN 3 ELSE IF Head(str) = "LT" THEN 2 ELSE 1)
       + ByteLength(Tail(str))

\* content.split('\n')
RECURSIVE Split(_)
Split(str) ==
  IF \A i \in DOMAIN str : str[i] # "n" THEN <<str>>
  ELSE LET i == CHOOSE i \in DOMAIN str :
                   str[i] = "n" /\ \A j \in 1..(i - 1) : str[j] # "n"
       IN <<SubSeq(str, 1, i - 1)>> \o Split(SubSeq(str, i + 1, Len(str)))

\* JSON.parse(line) succeeds; the number of items of entry.message.content
\* with type 'text' and a text, 0 unless entry.type === 'assistant'
ParseOk(line) ==
  \E k \in EntryKinds : line \in {<<k, "q", "}">>, <<k, "LT", "q", "}">>}
TextItems(line) ==
  IF ~ParseOk(line) THEN 0
  ELSE IF line[1] = "A" THEN 1 ELSE IF line[1] = "B" THEN 2 ELSE 0

\* `if (currentPosition <= lastPosition) continue`
AlreadyRead(currentPosition, lastPosition) == currentPosition <= lastPosition

\* the loop of extractNewMessages over the lines from position pos on: the
\* text items it pushes, each named by the offset of its line and its
\* index in the entry
RECURSIVE NewMessages(_, _, _)
NewMessages(lines, pos, lastPosition) ==
  IF lines = << >> THEN << >>
  ELSE LET line == Head(lines)
           currentPosition == pos + ByteLength(line) + 1
       IN (IF AlreadyRead(currentPosition, lastPosition) \/ line = << >>
           THEN << >>
           ELSE [k \in 1..TextItems(line) |-> [line |-> pos, item |-> k]])
          \o NewMessages(Tail(lines), currentPosition, lastPosition)

\* currentPosition after the loop
RECURSIVE PositionAfter(_, _)
PositionAfter(lines, pos) ==
  IF lines = << >> THEN pos
  ELSE PositionAfter(Tail(lines), pos + ByteLength(Head(lines)) + 1)

\* extractNewMessages(jsonlPath) with this.filePositions[path] = last
ExtractNewMessages(f, lastPosition) ==
  [messages |-> NewMessages(Split(Decode(f)), 0, lastPosition),
   position |-> PositionAfter(Split(Decode(f)), 0)]

\* narrate(message) with the default voice, on the fields st of the engine
NarrateOnce(st) ==
  IF NarrateSkips(ttsEnabled) THEN [st EXCEPT !.nextId = @ + 1]
  ELSE LET q == Append(st.audioQueue, [id |-> st.nextId, voice |-> "fable"])
           drain == ShouldDrain(st.isPlayingAudio, micActive)
           shift == drain /\ DrainCond(q, ttsEnabled, micActive)
       IN [audioQueue |-> IF shift THEN Tail(q) ELSE q,
           isPlayingAudio |-> IF drain THEN TRUE ELSE st.isPlayingAudio,
           loops |-> IF shift
                     THEN st.loops \cup {[pc |-> "synth", item |-> Head(q)]}
                     ELSE st.loops,
           nextId |-> st.nextId + 1,
           enqVoice |-> [i \in DOMAIN st.enqVoice \cup {st.nextId} |->
                           IF i = st.nextId THEN "fable" ELSE st.enqVoice[i]]]

\* `for (const message of newMessages) await this.narrate(message)`
RECURSIVE NarrateEach(_, _)
NarrateEach(n, st) ==
  IF n = 0 THEN st ELSE NarrateEach(n - 1, NarrateOnce(st))

\* the writer of the transcript appends one byte
AppendByte(b) ==
  /\ Len(file) < MaxBytes
  /\ b \in NextBytes(file)
  /\ file' = Append(file, b)
  /\ UNCHANGED <<filePosition, trackedSize, narrated, tempFiles>>
  /\ UNCHANGED engineVars
  /\ UNCHANGED hubVars

\* one run of the interval callback of startTranscriptMonitoring over the
\* transcript: tracking begins at the size of the file if no position is
\* stored, then the new messages are extracted and narrated
Poll ==
  LET lastPosition == IF filePosition = 0 THEN Len(file) ELSE filePosition
      x == ExtractNewMessages(file, lastPosition)
      st == NarrateEach(Len(x.messages),
                        [audioQueue |-> audioQueue,
                         isPlayingAudio |-> isPlayingAudio,
                         loops |-> loops, nextId |-> nextId,
                         enqVoice |-> enqVoice])
  IN /\ trackedSize' = IF filePosition = 0 THEN Len(file) ELSE trackedSize
     /\ filePosition' = x.position
     /\ narrated' = narrated \o x.messages
     /\ audioQueue' = st.audioQueue
     /\ isPlayingAudio' = st.isPlayingAudio
     /\ loops' = st.loops
     /\ nextId' = st.nextId
     /\ enqVoice' = st.enqVoice
     /\ lastEvent' = IF x.messages = << >> THEN lastEvent
                     ELSE Event("narrate", st.nextId - 1)
     /\ engineSent' = IF x.messages = << >> THEN engineSent ELSE << >>
     /\ UNCHANGED <<file, micActive, ttsEnabled, currentAudioProcess, procs,
                    wsState, reconnectTimer, timers, playLog, interrupted,
                    discarded, dropped, tempFiles>>
     /\ UNCHANGED hubVars

\* ----------------------------------------------------------- specifications

\* the state after both programs have started
Init ==
  /\ EngineInit
  /\ HubInit
  /\ MonitorInit

EngineNext ==
  \/ \E v \in Voices : Narrate(v)
  \/ \E l \in loops, ok \in BOOLEAN : SynthDone(l, ok)
  \/ \E l \in loops : PlayFail(l)
  \/ \E p \in procs : ProcExit(p)
  \/ \E a \in BOOLEAN : HandleMicStatus(a)
  \/ \E e \in BOOLEAN : HandleTTSToggle(e)
  \/ WsOpen
  \/ WsClose
  \/ ReconnectFire

SpecEngine ==
  /\ Init
  /\ [][EngineNext]_vars

\* one producer, two consumers under names other than 'Mac Server' (no
\* probe is pending in these runs): registry, sessions, control messages
HubNext ==
  \/ HubConnections({"c1"}, {"c2", "c3"}, OtherNames)
  \/ HubSessions({"c1"}, StartConfigs)
  \/ HubControl({"c1"})

SpecHub ==
  /\ Init
  /\ [][HubNext]_vars

\* one producer, one consumer: the recognition results of its sessions
DeltaNext ==
  \/ HubConnections({"c1"}, {"c2"}, {"Terminal"})
  \/ HubSessions({"c1"}, {[rate |-> 16000, lang |-> "de-DE"]})
  \/ HubResults(Texts)

SpecDelta ==
  /\ Init
  /\ [][DeltaNext]_vars

\* one producer and the consumer named 'Mac Server': the probes
ProbeNext ==
  \/ HubConnections({"c1"}, {"c2"}, {MacServerName})
  \/ HubProbes({"c1"}, {"c2"})

SpecProbe ==
  /\ Init
  /\ [][ProbeNext]_vars

\* two producers and one consumer: results of their sessions, and the
\* forwarding flags
ForwardNext ==
  \/ \E c \in Conns, pid \in PingIds :
        IsNextConn(c, {"c1", "c2"}, {"c3"}) /\ Connect(c, pid)
  \/ \E pid \in PingIds : Identify("c3", "receiver", "Terminal", pid)
  \/ \E c \in Conns : Close(c)
  \/ \E c \in {"c1", "c2"} : Start(c, 16000, "de-DE")
  \/ \E c \in {"c1", "c2"} : Stop(c)
  \/ HubResults({<<"a">>})
  \/ \E c \in {"c1", "c2"}, f \in BOOLEAN : SetForwarding(c, f)

SpecForward ==
  /\ Init
  /\ [][ForwardNext]_vars

\* the toggle of narration: two producers and the consumer named 'Mac
\* Server' at the hub, and the engine with its connection
HubTts(P, K) ==
  \/ \E c \in P, e \in BOOLEAN : TtsToggle(c, e)
  \/ \E c \in K, e \in BOOLEAN : TtsStateConfirm(c, e)
  \/ \E i \in DOMAIN probes : ProbeTimeout(i)

TtsNext ==
  \/ \E c \in Conns : IsNextConn(c, {"c1", "c3"}, {"c2"}) /\ Connect(c, 1)
  \/ \E c \in {"c1", "c3"} : Identify(c, "transcriber", "iPhone", 1)
  \/ Identify("c2", "receiver", MacServerName, 1)
  \/ \E c \in Conns : Close(c)
  \/ HubTts({"c1", "c3"}, {"c2"})
  \/ \E e \in BOOLEAN : HandleTTSToggle(e)
  \/ WsOpen
  \/ WsClose
  \/ ReconnectFire

SpecTts ==
  /\ Init
  /\ [][TtsNext]_vars

\* one producer, two consumers, sessions of one configuration, and the
\* payloads of HubFaults
FaultNext ==
  \/ HubConnections({"c1"}, {"c2", "c3"}, OtherNames)
  \/ HubSessions({"c1"}, {[rate |-> 16000, lang |-> "de-DE"]})
  \/ HubFaults({"c1"}, {"c2", "c3"})

SpecFault ==
  /\ Init
  /\ [][FaultNext]_vars

\* one producer with its sessions and results, and one consumer that
\* identifies under either name of OtherNames
OrderNext ==
  \/ \E c \in {"c1", "c2"} : IsNextConn(c, {"c1"}, {"c2"}) /\ Connect(c, 1)
  \/ \E n \in OtherNames : Identify("c2", "receiver", n, 1)
  \/ \E c \in {"c1", "c2"} : Close(c)
  \/ Start("c1", 16000, "de-DE")
  \/ Stop("c1")
  \/ HubResults({<<"a">>, <<"a", "b">>})
  \/ \E f \in BOOLEAN : SetForwarding("c1", f)

SpecOrder ==
  /\ Init
  /\ [][OrderNext]_vars

\* one producer sending the three control messages, and two consumers, each
\* of which is the Mac Server or a terminal
RelayNext ==
  \/ \E c \in Conns : IsNextConn(c, {"c1"}, {"c2", "c3"}) /\ Connect(c, 1)
  \/ \E c \in {"c2", "c3"}, n \in {MacServerName, "Terminal"} :
        Identify(c, "receiver", n, 1)
  \/ \E c \in Conns : Close(c)
  \/ KeyPress("c1", "escape")
  \/ \E a \in BOOLEAN : MicStatus("c1", a)
  \/ \E e \in BOOLEAN : TtsToggle("c1", e)
  \/ \E i \in DOMAIN probes : ProbeTimeout(i)

SpecRelay ==
  /\ Init
  /\ [][RelayNext]_vars

\* two consumers that identify, under a short or a long name, as the Mac
\* Server or as a terminal, with the probes their identify starts
IdentifyNext ==
  \/ \E c \in {"c2", "c3"} : IsNextConn(c, {}, {"c2", "c3"}) /\ Connect(c, 1)
  \/ \E c \in {"c2", "c3"}, n \in {MacServerName, "Terminal"} :
        Identify(c, "receiver", n, 1)
  \/ \E c \in {"c2", "c3"} : IdentifyLong(c)
  \/ \E c \in {"c2", "c3"} : Close(c)
  \/ \E c \in {"c2", "c3"} : Pong(c, 1)
  \/ \E i \in DOMAIN probes : ProbeTimeout(i)

SpecIdentify ==
  /\ Init
  /\ [][IdentifyNext]_vars

\* the start message each of two producers sends
StartOf(c) ==
  IF c = "c1" THEN [rate |-> 16000, lang |-> "de-DE"]
  ELSE [rate |-> 48000, lang |-> "en-GB"]

\* two producers, each with its own sample rate and language, and one
\* consumer
StartNext ==
  \/ \E c \in Conns : IsNextConn(c, {"c1", "c2"}, {"c3"}) /\ Connect(c, 1)
  \/ Identify("c3", "receiver", "Terminal", 1)
  \/ \E c \in Conns : Close(c)
  \/ \E c \in {"c1", "c2"} : Start(c, StartOf(c).rate, StartOf(c).lang)
  \/ \E c \in {"c1", "c2"} : Stop(c)
  \/ \E s \in streams : StreamFinish(s)

SpecStart ==
  /\ Init
  /\ [][StartNext]_vars

\* ------------------------------------------------------------- properties

\* the transcript envelopes among the sends of the last step
TranscriptsSent == {i \in DOMAIN sent : sent[i].msg.type = "transcript"}

\* C1: a start handled while no consumer is registered opens no upstream
\* session, leaves the session state of the producer as it is (Idle stays
\* Idle) and sends exactly one info reply to the sender; and a session is
\* only opened by a start handled while a consumer is registered.
C1_CostGate ==
  [][ /\ (hubEvent'.type = "start" /\ receivers = << >>) =>
           /\ streams' = streams
           /\ nextStream' = nextStream
           /\ recognizeStream' = recognizeStream
           /\ sent' = <<[to |-> hubEvent'.conn, msg |-> InfoMsg]>>
      /\ ~({s.id : s \in streams'} \subseteq {s.id : s \in streams}) =>
           /\ hubEvent'.type = "start"
           /\ Len(receivers) > 0
           /\ Cardinality(streams' \ streams) = 1
    ]_vars

\* an Idle producer got the info reply to a start sent after the only
\* registered consumer had disconnected
C1_Witness ==
  /\ hubEvent = HubEv("start", "c1")
  /\ receivers = << >>
  /\ connState["c2"] = "closed"
  /\ recognizeStream["c1"] = 0
  /\ streams = {}
  /\ sent = <<[to |-> "c1", msg |-> InfoMsg]>>

\* C2: every transcript envelope of a recognition result of a session
\* carries the fullText, and as delta the fullText with previousTranscript
\* stripped from its front when it starts with it, the whole fullText
\* otherwise, previousTranscript being the fullText of the session's
\* preceding result if that was not final, and empty otherwise.
C2_DeltaInvariant ==
  hubEvent.type = "data" =>
    LET full == hubEvent.full
        prev == hubEvent.before
    IN \A i \in TranscriptsSent :
         /\ sent[i].msg.transcript = full
         /\ sent[i].msg.isFinal = hubEvent.isFinal
         /\ IF \E n \in 0..Len(full) : SubSeq(full, 1, n) = prev
            THEN prev \o sent[i].msg.delta = full
            ELSE sent[i].msg.delta = full

\* C3: right after micStatus(active=true) or ttsToggle(enabled=false) is
\* handled the queue is empty and isPlayingAudio is false.
C3_QueueClear ==
  lastEvent.type \in InterruptEvents =>
    audioQueue = << >> /\ ~isPlayingAudio

\* mic-active arrived while a drain loop awaited a playback and an item
\* was queued behind it
C3_Witness ==
  /\ lastEvent.type = "micOn"
  /\ dropped # {}
  /\ \E l \in loops : l.pc = "play"
  /\ \E p \in procs : p.killed
  /\ audioQueue = << >> /\ ~isPlayingAudio

\* C4: playback starts in the order of the narrate() calls, each item with
\* the voice it was enqueued with.
C4_FifoPlayback ==
  /\ \A i, j \in DOMAIN playLog :
       i < j => playLog[i].id < playLog[j].id
  /\ \A i \in DOMAIN playLog : playLog[i].voice = enqVoice[playLog[i].id]

\* C5: at most one synthesis-plus-playback operation is in flight and at
\* most one playback process is alive.
C5_OneInFlight ==
  /\ Cardinality(loops) <= 1
  /\ Cardinality({p \in procs : ~p.killed}) <= 1

\* C6: right after micStatus(active=true) or ttsToggle(enabled=false) is
\* handled, no playback process is still running unkilled.
C6_InterruptKillsAll ==
  lastEvent.type \in InterruptEvents => \A p \in procs : p.killed

\* C7: no item accepted before an interrupt starts playback after it.
C7_NoStalePlayback ==
  \A i \in DOMAIN playLog : ~playLog[i].stale

\* C8: micStatus(active=true) handled right after a micStatus(active=true),
\* and ttsToggle(enabled=false) handled while narration is disabled, change
\* none of queue, isPlayingAudio, micActive, ttsEnabled and
\* currentAudioProcess, kill no process and drop no item.
C8_IdempotentInterrupt ==
  [][ lastEvent'.type \in {"micOnAgain", "ttsOffAgain"} =>
        /\ PlaybackState' = PlaybackState
        /\ procs' = procs
        /\ loops' = loops
        /\ dropped' = dropped
    ]_vars

\* a second mic-active right after one that killed a playback and emptied
\* a queue
C8_Witness ==
  /\ lastEvent.type = "micOnAgain"
  /\ dropped # {}
  /\ \E p \in procs : p.killed
  /\ micActive /\ audioQueue = << >> /\ currentAudioProcess = 0

\* C9: while the mic is active no playback process is started; narrate()
\* then appends its item without starting a drain loop, and a synthesis that
\* completes then has its file discarded unplayed.
C9_NoPlaybackWhileMicActive ==
  [][ /\ (micActive \/ micActive') =>
           /\ playLog' = playLog
           /\ {p.pid : p \in procs'} \subseteq {p.pid : p \in procs}
      /\ (micActive /\ ttsEnabled /\ lastEvent'.type = "narrate") =>
           /\ \E v \in Voices :
                audioQueue' = Append(audioQueue,
                                     [id |-> lastEvent'.id, voice |-> v])
           /\ loops' = loops
      /\ (micActive /\ lastEvent'.type = "synthOk") =>
           /\ lastEvent'.id \in discarded'
           /\ \A i \in DOMAIN playLog' : playLog'[i].id # lastEvent'.id
    ]_vars

\* with the mic active, an item narrated meanwhile waits in the queue and
\* the file of the synthesis that was in flight has just been discarded
C9_Witness ==
  /\ lastEvent.type = "synthOk"
  /\ micActive /\ ttsEnabled
  /\ lastEvent.id \in discarded
  /\ Len(audioQueue) > 0
  /\ procs = {}

\* C10: on helpMessage every registered consumer whose connection is open
\* is sent the emergency transcript (isFinal = true), and the sender is
\* sent helpMessageReceived in the same turn.
C10_HelpReachesAll ==
  hubEvent.type = "helpMessage" =>
    /\ \A i \in DOMAIN receivers :
         connState[receivers[i].ws] = "open" =>
           \E j \in DOMAIN sent :
              sent[j] = [to |-> receivers[i].ws,
                         msg |-> TranscriptMsg(EmergencyText, EmergencyText,
                                               TRUE)]
    /\ \E j \in DOMAIN sent :
         sent[j] = [to |-> hubEvent.conn, msg |-> HelpAckMsg]

\* C11: a helpMessage one of whose sends fails still has a send attempted
\* to every registered consumer whose connection is open, the failing one
\* and the ones after it included, and the acknowledgment sent to the
\* sender.
C11_HelpAttemptsAll ==
  (/\ hubEvent.type = "helpMessage"
   /\ "failing" \in DOMAIN hubEvent
   /\ connState[hubEvent.failing] = "open"
   /\ \E i \in DOMAIN receivers : receivers[i].ws = hubEvent.failing) =>
    /\ \A i \in DOMAIN receivers :
         connState[receivers[i].ws] = "open" =>
           \E j \in DOMAIN sent : /\ sent[j].to = receivers[i].ws
                                  /\ sent[j].msg.type = "transcript"
                                  /\ sent[j].msg.isFinal
    /\ Len(sent) > 0
    /\ sent[Len(sent)] = [to |-> hubEvent.conn, msg |-> HelpAckMsg]

\* the envelopes that carry the result of a probe
StatusTypes == {"connection", "serverStatusUpdate"}

\* C12: when the 1000 ms timer of a probe fires, that probe is over and its
\* one result, 'Mac Server' down, goes to its caller (if the caller is
\* still connected) and to nobody else; no connection is closed and no
\* registry entry removed.
C12_ProbeTimeout ==
  [][ hubEvent'.type = "probeTimeout" =>
        /\ \E i \in DOMAIN probes :
             LET p == probes[i] IN
             /\ probes' = SubSeq(probes, 1, i - 1)
                             \o SubSeq(probes, i + 1, Len(probes))
             /\ Len(sent') = IF connState[p.to] = "open" THEN 1 ELSE 0
             /\ \A j \in DOMAIN sent' :
                  /\ sent'[j].to = p.to
                  /\ sent'[j].msg.type \in StatusTypes
                  /\ sent'[j].msg.macServer = FALSE
        /\ connState' = connState
        /\ receivers' = receivers
        /\ transcribers' = transcribers
    ]_vars

\* the probe of a status request timed out: its caller was told 'Mac
\* Server' down, and the consumer is still connected and registered
C12_Witness ==
  /\ hubEvent = HubEv("probeTimeout", "c1")
  /\ probes = << >>
  /\ sent = <<[to |-> "c1", msg |-> StatusUpdateMsg(FALSE)]>>
  /\ connState["c2"] = "open"
  /\ receivers = <<[name |-> MacServerName, ws |-> "c2"]>>

\* the connections of the registered consumers that are open
OpenConsumers == {receivers[i].ws : i \in DOMAIN receivers} \cap
                 {c \in Conns : connState[c] = "open"}

\* C13: a recognition result of a producer goes to the producer itself
\* once, and to every open consumer if the forwarding flag of that producer
\* is on, to no consumer if it is off, whatever the flags of the other
\* producers are; stopForwarding and startForwarding set the flag of their
\* sender only and leave every session as it is.
C13_ForwardingGate ==
  [][ /\ hubEvent'.type = "data" =>
           LET c == hubEvent'.conn
               own == {j \in DOMAIN sent' : sent'[j].to = c}
           IN /\ Cardinality(own) = IF connState[c] = "open" THEN 1 ELSE 0
              /\ \A j \in DOMAIN sent' :
                   /\ sent'[j].msg.type = "transcript"
                   /\ sent'[j].msg.transcript = hubEvent'.full
              /\ {sent'[j].to : j \in DOMAIN sent'} \ {c} =
                   IF forwardingEnabled[c] THEN OpenConsumers ELSE {}
              /\ streams' = streams
              /\ recognizeStream' = recognizeStream
      /\ hubEvent'.type \in {"stopForwarding", "startForwarding"} =>
           LET c == hubEvent'.conn IN
           /\ forwardingEnabled'[c] = (hubEvent'.type = "startForwarding")
           /\ \A d \in Conns \ {c} :
                forwardingEnabled'[d] = forwardingEnabled[d]
           /\ streams' = streams
           /\ recognizeStream' = recognizeStream
    ]_vars

\* a result of c1, whose flag is off, went to c1 alone although a consumer
\* is connected and the flag of c2 is on; the session of c1 is still open
C13_Witness ==
  /\ hubEvent.type = "data" /\ hubEvent.conn = "c1"
  /\ ~forwardingEnabled["c1"] /\ forwardingEnabled["c2"]
  /\ OpenConsumers = {"c3"}
  /\ {sent[j].to : j \in DOMAIN sent} = {"c1"}
  /\ recognizeStream["c1"] = hubEvent.stream
  /\ \E t \in streams : t.id = hubEvent.stream /\ t.state = "open"
  /\ \E t \in streams : t.owner = "c2" /\ t.state = "open"

\* the upstream sessions of a connection that are open
OpenSessions(c) == {t \in streams : t.owner = c /\ t.state = "open"}

\* C14: every connection owns at most one open upstream session.
C14_OneSessionPerProducer ==
  \A c \in Conns : Cardinality(OpenSessions(c)) <= 1

\* C15: right after the stop of a producer or the close of its connection
\* none of its sessions is open, and after the stop it holds no stream; an
\* audio frame is written to no stream but an open one of its sender.
C15_StopAndCloseRelease ==
  /\ hubEvent.type \in {"stop", "close"} => OpenSessions(hubEvent.conn) = {}
  /\ hubEvent.type = "stop" => recognizeStream[hubEvent.conn] = 0
  /\ hubEvent.type = "audio" =>
       written \subseteq {t.id : t \in OpenSessions(hubEvent.conn)}

\* C16: an upstream error removes the stream it occurred in and no other,
\* is reported by one error envelope to the owner of that stream and to
\* nobody else, leaves the registries and the stream handles of the other
\* connections as they are, and leaves the owner without a stream if the
\* failed one was its current one, with its current one otherwise.
C16_ErrorScoped ==
  [][ hubEvent'.type = "streamError" =>
        LET c == hubEvent'.conn
            k == hubEvent'.stream
        IN /\ streams' = {t \in streams : t.id # k}
           /\ Len(sent') <= 1
           /\ \A j \in DOMAIN sent' :
                sent'[j].to = c /\ sent'[j].msg.type = "error"
           /\ receivers' = receivers
           /\ transcribers' = transcribers
           /\ \A d \in Conns \ {c} : recognizeStream'[d] = recognizeStream[d]
           /\ recognizeStream'[c] =
                IF recognizeStream[c] = k THEN 0 ELSE recognizeStream[c]
    ]_vars

\* C17: every entry of the consumer registry and of the producer registry
\* refers to a connection that has not closed.
C17_NoClosedInRegistry ==
  /\ \A i \in DOMAIN receivers : connState[receivers[i].ws] # "closed"
  /\ \A c \in transcribers : connState[c] # "closed"

\* C18: a payload that starts with '{' and is not valid JSON is answered
\* by exactly one error envelope to its sender and has no other effect.
C18_MalformedReply ==
  [][ hubEvent'.type = "malformed" =>
        /\ sent' = <<[to |-> hubEvent'.conn, msg |-> ErrorMsg("parse")]>>
        /\ written' = {}
        /\ UNCHANGED <<connState, receivers, transcribers, recognizeStream,
                       forwardingEnabled, streams>>
    ]_vars

\* C19: an envelope whose type is not in the catalog is answered by an
\* error envelope to its sender, and the connection stays open.
C19_UnknownTypeAnswered ==
  hubEvent.type = "unknown" =>
    /\ \E j \in DOMAIN sent :
         sent[j].to = hubEvent.conn /\ sent[j].msg.type = "error"
    /\ connState[hubEvent.conn] = "open"

\* the connections of the registered producers that are open
OpenProducers == transcribers \cap {c \in Conns : connState[c] = "open"}

\* C20: the engine answers every ttsToggle(e) it handles while its
\* connection is open with one ttsStateConfirm(e); the hub answers a
\* ttsStateConfirm(e) with one ttsState(e) to every open registered
\* producer and to nobody else; and the hub sends a ttsState in no other
\* step, the one that forwards the toggle included.
C20_ConfirmedToggle ==
  [][ /\ (hubVars' = hubVars /\ lastEvent'.type \in {"ttsOn"} \cup TtsOffEvents
           /\ wsState = "open") =>
           /\ ttsEnabled' = (lastEvent'.type = "ttsOn")
           /\ engineSent' = <<[type |-> "ttsStateConfirm",
                               enabled |-> ttsEnabled']>>
      /\ hubEvent'.type = "ttsStateConfirm" =>
           /\ {sent'[j].to : j \in DOMAIN sent'} = OpenProducers'
           /\ Len(sent') = Cardinality(OpenProducers')
           /\ \A j \in DOMAIN sent' :
                sent'[j].msg = TtsStateMsg(hubEvent'.enabled)
      /\ hubEvent'.type # "ttsStateConfirm" =>
           \A j \in DOMAIN sent' : sent'[j].msg.type # "ttsState"
      /\ hubEvent'.type = "ttsToggle" =>
           \A j \in DOMAIN sent' :
              \/ sent'[j].msg = TtsToggleMsg(hubEvent'.enabled)
              \/ sent'[j].to = hubEvent'.conn /\ sent'[j].msg.type = "error"
    ]_vars

\* the engine, connected, has just disabled narration and sent its
\* confirmation, and the hub has answered a ttsStateConfirm(false) of the
\* Mac Server by ttsState(false) to both producers
C20_Witness ==
  /\ lastEvent.type = "ttsOff" /\ wsState = "open" /\ ~ttsEnabled
  /\ engineSent = <<[type |-> "ttsStateConfirm", enabled |-> FALSE]>>
  /\ hubEvent = [type |-> "ttsStateConfirm", conn |-> "c2",
                 enabled |-> FALSE]
  /\ sent = <<[to |-> "c1", msg |-> TtsStateMsg(FALSE)],
              [to |-> "c3", msg |-> TtsStateMsg(FALSE)]>>

\* C21: ttsToggle(enabled=true) only re-arms the engine: it sets ttsEnabled
\* and leaves the queue, isPlayingAudio and the running playback process
\* as they were.
C21_ReArmOnly ==
  [][ lastEvent'.type = "ttsOn" =>
        /\ ttsEnabled'
        /\ audioQueue' = audioQueue
        /\ isPlayingAudio' = isPlayingAudio
        /\ currentAudioProcess' = currentAudioProcess
        /\ procs' = procs
    ]_vars

\* C22: after a ttsToggle in either direction the queue is empty.
C22_ToggleClearsQueue ==
  [][ lastEvent'.type \in {"ttsOn"} \cup TtsOffEvents =>
        /\ audioQueue' = << >>
        /\ dropped' = dropped \cup Ids(audioQueue)
    ]_vars

\* ttsToggle(true) has just been handled and the queue is empty, although
\* an item was dropped from it and no mic-active or ttsToggle(false)
\* interrupt was ever handled: the enabling toggle removed it
C22_Witness ==
  /\ lastEvent.type = "ttsOn"
  /\ audioQueue = << >>
  /\ dropped # {}
  /\ interrupted = {}

\* the two failures of an item: its synthesis, the launch of its playback
FailureEvents == {"synthFail", "playFail"}

\* C23: a failed synthesis or playback launch drops only that item: no
\* queued item is dropped, the loop shifts the next item when its condition
\* holds and otherwise exits with isPlayingAudio false and the queue as it
\* was, and isPlayingAudio is never left true without a drain in progress.
C23_FailureDropsOneItem ==
  [][ lastEvent'.type \in FailureEvents =>
        /\ dropped' = dropped
        /\ playLog' = playLog
        /\ \A l \in loops' : l.item.id # lastEvent'.id
        /\ IF DrainCond(audioQueue, ttsEnabled, micActive)
           THEN /\ audioQueue' = Tail(audioQueue)
                /\ [pc |-> "synth", item |-> Head(audioQueue)] \in loops'
           ELSE /\ audioQueue' = audioQueue
                /\ ~isPlayingAudio'
        /\ isPlayingAudio' => loops' # {}
    ]_vars

\* the synthesis of the first item has just failed and the loop went on to
\* the second item, which had been queued behind it
C23_Witness ==
  /\ lastEvent = Event("synthFail", 1)
  /\ loops = {[pc |-> "synth", item |-> [id |-> 2, voice |-> "nova"]]}
  /\ audioQueue = << >>
  /\ isPlayingAudio
  /\ dropped = {}

\* the engine with its timers and awaited calls eventually completing:
\* a pending reconnect timer fires, a pending synthesis request resolves, a
\* playback process exits
EngineFairness ==
  /\ WF_vars(ReconnectFire)
  /\ WF_vars(\E l \in loops, ok \in BOOLEAN : SynthDone(l, ok))
  /\ WF_vars(\E p \in procs : ProcExit(p))

SpecEngineLive ==
  /\ Init
  /\ [][EngineNext]_vars
  /\ EngineFairness

\* the connection of the engine to the hub, with the two messages the hub
\* forwards to it and with narration on an engine that has no OpenAI client
\* (textToSpeech returns null); a pending reconnect timer eventually fires
ReconnectNext ==
  \/ WsOpen
  \/ WsClose
  \/ ReconnectFire
  \/ \E e \in BOOLEAN : HandleTTSToggle(e)
  \/ \E a \in BOOLEAN : HandleMicStatus(a)
  \/ \E v \in Voices : Narrate(v)
  \/ \E l \in loops : SynthDone(l, FALSE)

SpecReconnect ==
  /\ Init
  /\ [][ReconnectNext]_vars
  /\ WF_vars(ReconnectFire)

\* C24: at most one reconnect timer is outstanding, it is outstanding
\* exactly while the connection is closed, scheduleReconnect() with the
\* timer set changes nothing, and every close is followed by one
\* connection attempt, made by the timer from the closed state.
C24_OneReconnectTimer ==
  /\ \A n \in 0..1 :
       ScheduleReconnect(TRUE, n) = [timer |-> TRUE, timers |-> n]
  /\ [][ /\ timers' <= 1
         /\ reconnectTimer' <=> timers' = 1
         /\ wsState' = "closed" <=> timers' = 1
         /\ lastEvent'.type = "reconnect" =>
              /\ wsState = "closed" /\ timers = 1
              /\ wsState' = "connecting" /\ timers' = 0
       ]_vars
  /\ (wsState = "closed") ~> (lastEvent.type = "reconnect")

\* the connection has just closed after the engine had confirmed a toggle
\* on it, and exactly one timer is pending
C24_Witness ==
  /\ lastEvent.type = "wsClose"
  /\ wsState = "closed"
  /\ reconnectTimer /\ timers = 1
  /\ ~ttsEnabled

\* the sends of a step to the connection k, in order
SendsTo(sq, k) == SelectSeq(sq, LAMBDA e : e.to = k)

\* C25: each recognition result of a producer whose forwarding flag is on
\* reaches every open registered consumer exactly once, in the step that
\* handles the result (so in the order of emission), as the very envelope
\* the producer is sent.
C25_OrderedFanOut ==
  [][ (hubEvent'.type = "data" /\ forwardingEnabled[hubEvent'.conn]) =>
        LET c == hubEvent'.conn
            m == TranscriptMsg(hubEvent'.full,
                               Delta(previousTranscript[c], hubEvent'.full),
                               hubEvent'.isFinal)
        IN /\ connState[c] = "open" =>
                SendsTo(sent', c) = <<[to |-> c, msg |-> m]>>
           /\ \A k \in OpenConsumers \ {c} :
                SendsTo(sent', k) = <<[to |-> k, msg |-> m]>>
    ]_vars

\* the control messages the hub forwards
ControlTypes == {"keyPress", "ttsToggle", "micStatus"}

\* C26: a keyPress goes to every open registered consumer and to nobody
\* else; a ttsToggle or micStatus goes to the consumer registered as 'Mac
\* Server' alone; the sender gets a reply only to a ttsToggle that finds
\* that consumer absent or not open, an error; and the hub holds nothing
\* back: these steps change no registry or session state, and no other step
\* sends a control envelope.
C26_ControlRouting ==
  [][ LET c == hubEvent'.conn
          mac == MapGet(receivers, MacServerName)
          ready == MacServerReady(receivers, connState)
      IN
      /\ hubEvent'.type = "keyPress" =>
           /\ {sent'[j].to : j \in DOMAIN sent'} = OpenConsumers
           /\ \A j \in DOMAIN sent' :
                sent'[j].msg = KeyPressMsg(hubEvent'.key)
      /\ hubEvent'.type = "micStatus" =>
           sent' = IF ready
                   THEN <<[to |-> mac, msg |-> MicStatusMsg(hubEvent'.active)]>>
                   ELSE << >>
      /\ hubEvent'.type = "ttsToggle" =>
           sent' = IF ready
                   THEN <<[to |-> mac, msg |-> TtsToggleMsg(hubEvent'.enabled)]>>
                   ELSE <<[to |-> c,
                           msg |-> ErrorMsg("Mac Server not connected")]>>
      /\ hubEvent'.type \in ControlTypes =>
           /\ receivers' = receivers /\ transcribers' = transcribers
           /\ connState' = connState /\ streams' = streams
      /\ hubEvent'.type \notin ControlTypes =>
           \A j \in DOMAIN sent' : sent'[j].msg.type \notin ControlTypes
    ]_vars

\* a micStatus of the producer went to the Mac Server alone although a
\* terminal is registered and open as well
C26_Witness ==
  /\ hubEvent = [type |-> "micStatus", conn |-> "c1", active |-> TRUE]
  /\ MapGet(receivers, MacServerName) = "c2"
  /\ MapGet(receivers, "Terminal") = "c3"
  /\ OpenConsumers = {"c2", "c3"}
  /\ sent = <<[to |-> "c2", msg |-> MicStatusMsg(TRUE)]>>

\* C27: an item that is in the queue while the mic is inactive and
\* narration is enabled leaves the queue (to be synthesized, or dropped by
\* an interrupt) or the mic turns active or narration is disabled, given
\* that synthesis requests and playbacks complete. No further narrate() is
\* assumed: the property is asked of the states in which narrate() calls
\* are still to come, so that an item left behind is not left behind by the
\* calls having run out.
C27_QueuedItemLeaves ==
  \A i \in 1..MaxItems :
     (i \in Ids(audioQueue) /\ ~micActive /\ ttsEnabled
        /\ nextId <= MaxItems)
       ~> (i \notin Ids(audioQueue) \/ micActive \/ ~ttsEnabled)

\* C28: narrate() appends its item to the tail of the queue and leaves the
\* items already queued in place; it begins draining, that is the head of
\* the queue is shifted into a new drain loop, exactly when no drain loop
\* is in progress, the mic is inactive and narration is enabled.
C28_NarrateAppends ==
  [][ lastEvent'.type = "narrate" =>
        \E v \in Voices :
          LET q == Append(audioQueue, [id |-> lastEvent'.id, voice |-> v])
          IN IF loops = {} /\ ~micActive /\ ttsEnabled
             THEN /\ audioQueue' = Tail(q)
                  /\ loops' = {[pc |-> "synth", item |-> Head(q)]}
             ELSE /\ audioQueue' = q
                  /\ loops' = loops
    ]_vars

\* the connection/identified replies to c among the sends of a step, and
\* the probes whose result will be sent to c as such a reply
IdentifiedReplies(sq, c) ==
  SelectSeq(sq, LAMBDA e : /\ e.to = c /\ e.msg.type = "connection"
                           /\ e.msg.status = "identified")
IdentifiedPending(ps, c) ==
  SelectSeq(ps, LAMBDA p : p.to = c /\ p.kind = "identified")

\* C29: an identify as receiver puts the sender under its name in the
\* registry, in the place of whoever held that name, and leaves the other
\* names as they were; and every identify is answered once: a connection
\* that stays open is sent one connection/identified reply per identify,
\* at once or when the probe the identify started is over.
C29_IdentifyRegisters ==
  [][ /\ hubEvent'.type = "identify" =>
           \E n \in {MacServerName} \cup OtherNames :
              /\ receivers' = MapSet(receivers, n, hubEvent'.conn)
              /\ MapGet(receivers', n) = hubEvent'.conn
      /\ \A c \in Conns :
           (connState[c] = "open" /\ connState'[c] = "open") =>
              Len(IdentifiedReplies(sent', c)) =
                 Len(IdentifiedPending(probes, c))
                 - Len(IdentifiedPending(probes', c))
                 + (IF hubEvent'.type = "identify" /\ hubEvent'.conn = c
                    THEN 1 ELSE 0)
    ]_vars

\* C30: a start handled while a consumer is registered opens one upstream
\* session, and every session is opened with the sample rate and the
\* language code of the start message of its producer.
C30_SessionConfig ==
  [][ /\ (hubEvent'.type = "start" /\ Len(receivers) > 0) =>
           \E s \in streams' :
              /\ s.id = nextStream /\ s.owner = hubEvent'.conn
              /\ s.state = "open"
      /\ \A s \in streams' :
           s.id >= nextStream =>
              /\ s.rate = StartOf(s.owner).rate
              /\ s.lang = StartOf(s.owner).lang
    ]_vars

\* both producers have an open session, one at 16000 Hz in de-DE and one
\* at 48000 Hz in en-GB
C30_Witness ==
  /\ \E s \in streams : /\ s.owner = "c1" /\ s.state = "open"
                        /\ s.rate = 16000 /\ s.lang = "de-DE"
  /\ \E s \in streams : /\ s.owner = "c2" /\ s.state = "open"
                        /\ s.rate = 48000 /\ s.lang = "en-GB"

\* C31: a JSON control envelope of more than 100 bytes is dispatched on its
\* type like a short one: it is written to no recognition stream, and its
\* sender gets the reply of its branch (helpMessageReceived for a
\* helpMessage, the parse error for a payload that is not valid JSON).
C31_DispatchOnType ==
  [][ (hubEvent'.type \in {"helpMessage", "malformed"} /\ hubEvent'.long) =>
        /\ written' = {}
        /\ \E j \in DOMAIN sent' :
              sent'[j] = [to |-> hubEvent'.conn,
                          msg |-> IF hubEvent'.type = "helpMessage"
                                  THEN HelpAckMsg
                                  ELSE ErrorMsg("parse")]
    ]_vars

\* one producer and one consumer; every recognition result is an interim
\* one with a text, so a session has a non-final result before each of
\* its results but the first
SessionNext ==
  \/ HubConnections({"c1"}, {"c2"}, {"Terminal"})
  \/ HubSessions({"c1"}, {[rate |-> 16000, lang |-> "de-DE"]})
  \/ \E s \in streams, t \in Texts \ {<< >>} : OnData(s, t, FALSE)

SpecSession ==
  /\ Init
  /\ [][SessionNext]_vars

\* C32: previousTranscript belongs to the session: the first transcript
\* envelope of every session opened by start has delta = fullText, also
\* when an earlier session of the same connection was stopped or failed
\* right after a non-final result.
C32_FirstDeltaIsFullText ==
  (hubEvent.type = "data" /\ hubEvent.before = << >>) =>
    \A i \in TranscriptsSent : sent[i].msg.delta = hubEvent.full

\* C33: when the probed consumer sends the pong with the pingId of a probe
\* whose 1000 ms timer has not fired, that probe is over and reports
\* 'Mac Server' up to its caller (if the caller is still connected), also
\* with several probes outstanding and when the consumer has sent other
\* messages, another probe's pong among them, before the matching pong.
C33_MatchingPongReportsUp ==
  [][ \A c \in Conns, id \in PingIds :
        Pong(c, id) =>
          \A i \in DOMAIN probes :
             LET p == probes[i] IN
             (p.target = c /\ p.pingId = id) =>
               /\ \A j \in DOMAIN probes' : probes'[j].pingId # id
               /\ connState[p.to] = "open" =>
                    \E j \in DOMAIN sent' :
                       sent'[j] = ProbeReply(connState, clientType, p.to,
                                             p.kind, TRUE)[1]
    ]_vars

\* one producer, which identifies or does not, and the consumer named 'Mac
\* Server', which answers toggles with ttsStateConfirm
ConfirmNext ==
  \/ \E c \in {"c1", "c2"} : IsNextConn(c, {"c1"}, {"c2"}) /\ Connect(c, 1)
  \/ Identify("c1", "transcriber", "iPhone", 1)
  \/ Identify("c2", "receiver", MacServerName, 1)
  \/ \E c \in {"c1", "c2"} : Close(c)
  \/ \E e \in BOOLEAN : TtsToggle("c1", e)
  \/ \E e \in BOOLEAN : TtsStateConfirm("c2", e)
  \/ \E i \in DOMAIN probes : ProbeTimeout(i)

\* the Mac Server keeps answering and the probe timers fire
ConfirmFairness ==
  /\ WF_vars(\E e \in BOOLEAN : TtsStateConfirm("c2", e))
  /\ WF_vars(\E i \in DOMAIN probes : ProbeTimeout(i))

SpecConfirm ==
  /\ Init
  /\ [][ConfirmNext]_vars
  /\ ConfirmFairness

\* C34: every ttsToggle of a producer leads to that producer being sent a
\* ttsState confirmation or an error envelope, unless a connection closes
\* first, whether or not the producer has sent identify.
C34_ToggleAnswered ==
  (hubEvent.type = "ttsToggle" /\ hubEvent.conn = "c1")
    ~> (\/ \E j \in DOMAIN sent :
              /\ sent[j].to = "c1"
              /\ sent[j].msg.type \in {"ttsState", "error"}
        \/ \E d \in {"c1", "c2"} : connState[d] = "closed")

\* the transcript, its writer and the polls of the monitor
MonitorNext ==
  \/ \E b \in Bytes : AppendByte(b)
  \/ Poll

SpecMonitor ==
  /\ Init
  /\ [][MonitorNext]_vars

\* the text of the entry that starts at offset o is complete in f
EntryAt(f, o) ==
  /\ o = 0 \/ f[o] = "n"
  /\ \/ o + 3 <= Len(f) /\ SubSeq(f, o + 2, o + 3) = <<"q", "}">>
     \/ o + 5 <= Len(f) /\ SubSeq(f, o + 2, o + 5) = <<"L", "T", "q", "}">>

\* the text items of the assistant entries whose text is complete in f,
\* each named by the offset of its line and its index in the entry
Segments(f) ==
  {g \in [line : 0..(Len(f) - 3), item : 1..2] :
     /\ EntryAt(f, g.line)
     /\ \/ f[g.line + 1] = "A" /\ g.item = 1
        \/ f[g.line + 1] = "B"}

\* the number of narrate() calls made for a segment
NarrateCount(g) == Cardinality({i \in DOMAIN narrated : narrated[i] = g})

\* no text segment is passed to narrate() twice, nothing but a text
\* segment of an assistant entry is passed, and once a poll has read the
\* whole file every assistant text segment appended after tracking began
\* has been passed
NarratedOnce ==
  /\ \A i \in DOMAIN narrated :
       narrated[i] \in Segments(file) /\ NarrateCount(narrated[i]) = 1
  /\ (trackedSize >= 0 /\ filePosition = Len(file) + 1) =>
       \A g \in Segments(file) :
          g.line >= trackedSize => NarrateCount(g) = 1

\* C35: across any sequence of appends and polls of an append-only
\* transcript, a poll that reads a partially written last line included,
\* every assistant text segment appended after tracking began is passed
\* to narrate() exactly once, and the stored byte offset never decreases.
C35_NarratedExactlyOnce ==
  /\ []NarratedOnce
  /\ [][filePosition' >= filePosition]_vars

\* the narration pipeline of the engine without its connection, every
\* item in the default voice
PlaybackNext ==
  \/ Narrate("fable")
  \/ \E l \in loops, ok \in BOOLEAN : SynthDone(l, ok)
  \/ \E l \in loops : PlayFail(l)
  \/ \E p \in procs : ProcExit(p)
  \/ \E a \in BOOLEAN : HandleMicStatus(a)
  \/ \E e \in BOOLEAN : HandleTTSToggle(e)

\* every playback process exits, by itself or killed, and its callback runs
PlaybackFairness ==
  \A i \in 1..MaxItems : WF_vars(\E p \in procs : p.pid = i /\ ProcExit(p))

SpecPlayback ==
  /\ Init
  /\ [][PlaybackNext]_vars
  /\ PlaybackFairness

\* C36: every audio file a successful synthesis produced is deleted: a
\* file that is not played (microphone active, narration disabled, or the
\* player failing to start) within the step that produced it, so that a
\* file exists only while the exit callback of its playback process is
\* pending; and a file that is played eventually, when its process exits
\* normally, with an error, or killed by an interrupt.
C36_FilesDeleted ==
  /\ [](tempFiles \subseteq {p.pid : p \in procs})
  /\ [](discarded \cap tempFiles = {})
  /\ \A i \in 1..MaxItems : (i \in tempFiles) ~> (i \notin tempFiles)

\* the playback process of an item has just exited after an interrupt
\* killed it, its file is gone, and the file of another item was dropped
\* unplayed
C36_Witness ==
  /\ lastEvent.type = "procExit"
  /\ lastEvent.id \in interrupted
  /\ lastEvent.id \notin tempFiles
  /\ discarded # {}
  /\ \E j \in DOMAIN playLog : playLog[j].id = lastEvent.id

\* C37: currentAudioProcess is non-null exactly while a playback process
\* the engine started is alive, and refers to it; the exit callback of a
\* process that was killed or replaced earlier neither clears nor
\* overwrites the handle of a later process.
C37_HandleTracksProcess ==
  /\ [](currentAudioProcess # 0 =>
          \E p \in procs : p.pid = currentAudioProcess /\ ~p.killed)
  /\ [](\A p \in procs : ~p.killed => currentAudioProcess = p.pid)
  /\ [][ (lastEvent'.type = "procExit"
            /\ lastEvent'.id # currentAudioProcess) =>
           currentAudioProcess' = currentAudioProcess ]_vars

\* C38: at most one drain loop of processAudioQueue is active at any time,
\* and isPlayingAudio is true whenever one is, so that narrate() never
\* starts a second loop.
C38_OneDrainLoop ==
  /\ [](Cardinality(loops) <= 1)
  /\ [](loops # {} => isPlayingAudio)
  /\ [][ (lastEvent'.type = "narrate" /\ loops # {}) => loops' = loops ]_vars

\* C39: whenever narration is disabled the audio queue is empty:
\* ttsToggle(enabled=false) leaves it empty, and narrate() called while
\* narration is disabled enqueues nothing.
C39_DisabledQueueEmpty ==
  /\ [](~ttsEnabled => audioQueue = << >>)
  /\ [][ lastEvent'.type \in TtsOffEvents => audioQueue' = << >> ]_vars
  /\ [][ (lastEvent'.type = "narrate" /\ ~ttsEnabled) =>
           audioQueue' = audioQueue ]_vars

\* narrate() has just been called while narration is disabled, after the
\* toggle that disabled it interrupted an accepted item
C39_Witness ==
  /\ lastEvent.type = "narrate"
  /\ ~ttsEnabled
  /\ interrupted # {}
  /\ audioQueue = << >>

\* two consumers that identify under the one name 'Terminal', each taking
\* the entry over from the other, and a producer that starts sessions
TakeoverNext ==
  \/ \E c \in Conns : IsNextConn(c, {"c1"}, {"c2", "c3"}) /\ Connect(c, 1)
  \/ \E c \in {"c2", "c3"} : Identify(c, "receiver", "Terminal", 1)
  \/ \E c \in Conns : Close(c)
  \/ Start("c1", 16000, "de-DE")
  \/ Stop("c1")

SpecTakeover ==
  /\ Init
  /\ [][TakeoverNext]_vars

\* C40: the close handler removes a registry entry only if it maps to the
\* closing connection: when the name of the closing consumer was taken
\* over by a later identify of another connection, the entry of that
\* connection stays, and the number of consumers the cost gate sees does
\* not drop.
C40_CloseKeepsTakenOverName ==
  [][ hubEvent'.type = "close" =>
        LET c == hubEvent'.conn IN
        /\ \A i \in DOMAIN receivers :
             receivers[i].ws # c =>
                \E j \in DOMAIN receivers' : receivers'[j] = receivers[i]
        /\ (\A i \in DOMAIN receivers : receivers[i].ws # c) =>
             /\ receivers' = receivers
             /\ CostGateBlocks(receivers') = CostGateBlocks(receivers)
    ]_vars

\* the consumer c2, which had identified as 'Terminal', has just closed
\* after c3 took the name over, and the entry of c3 is in place
C40_Witness ==
  /\ hubEvent = HubEv("close", "c2")
  /\ clientType["c2"] = "receiver"
  /\ receivers = <<[name |-> "Terminal", ws |-> "c3"]>>
  /\ connState["c3"] = "open"

====
